---------------------------- MODULE Spec2Model ----------------------------
(***************************************************************************)
(* A model of the render-and-validate pipeline of report-generator         *)
(* (src/main.py): CSV ingestion (normalize_csv_headers, sanitize_csv_cell, *)
(* parse_csv_text, parse_csv_text_strict), the table-spec validator        *)
(* (validate_against_csv) and the request handlers built on them.          *)
(*                                                                         *)
(* Text is a sequence of one-character strings, so that strip, len,        *)
(* slicing and formatting are computed as Python computes them.  A row of  *)
(* a parsed table is a function from header text to cell text, as the      *)
(* dict built by dict(zip(headers, cells)).                                *)
(***************************************************************************)
EXTENDS Integers, Sequences, FiniteSets, TLC

VARIABLES
    pc,               \* position of the request being served
    excel_delimiter,  \* csv.excel.delimiter: an attribute of a class shared by the whole process
    text,             \* the CSV text handed to the parser
    delimiter,        \* the delimiter argument (<<>> models None or "")
    has_header,       \* the has_header argument
    mode,             \* "preview" (parse_csv_text) or "strict" (parse_csv_text_strict)
    dialect,          \* the dialect the reader was built with
    result,           \* what the parser returned or raised
    text2,            \* the table written back to CSV text
    result2,          \* the parse of text2
    raw_headers,      \* normalize_csv_headers: argument
    total_columns,    \* normalize_csv_headers: argument
    headers_out,      \* normalize_csv_headers: return value
    spec,             \* the TableSpec produced by the external generator
    edits,            \* how many deviations the generator made from the CSV
    changed,          \* the one cell changed by the last deviation, if it was a cell change
    verdict,          \* what validate_against_csv returned or raised
    response,         \* the HTTP response of the request
    call,             \* render_html_safe: the call each request thread is making
    queue,            \* render_executor: the jobs submitted and not yet taken by a worker
    workers,          \* render_executor: the jobs its worker threads are running
    submitted,        \* render_executor: how many jobs were submitted so far
    payload,          \* render_api, render_with_tables: the request body
    trace,            \* the stages the handler has run, in the order it ran them
    templates,        \* the templates table of the database
    template_text,    \* the resolved template
    template_record,  \* the stored template it was resolved from, if any
    tables_html,      \* render_with_tables: key and HTML of each table built so far
    tables_meta,      \* render_with_tables: the metadata of each table built so far
    sent,             \* the tables handed to the external generator, in the order sent
    render_data,      \* the context the template is evaluated in
    output_html,      \* the rendered document
    reports,          \* the reports table of the database
    sessions          \* the template requests in flight: what each read and its answer

vars == <<pc, excel_delimiter, text, delimiter, has_header, mode, dialect, result,
          text2, result2, raw_headers, total_columns, headers_out,
          spec, edits, changed, verdict, response,
          call, queue, workers, submitted,
          payload, trace, templates, template_text, template_record,
          tables_html, tables_meta, sent, render_data, output_html, reports,
          sessions>>

-----------------------------------------------------------------------------
(* Limits.  The source sets MAX_CSV_ROWS = 1000, MAX_CSV_COLUMNS = 50 and  *)
(* MAX_CELL_CHARS = 500 (src/main.py:392-394); the model keeps the names   *)
(* and the comparisons and scales the values down so that inputs on both   *)
(* sides of every limit are enumerated.                                    *)
MAX_CSV_ROWS == 3
MAX_CSV_COLUMNS == 3
MAX_CELL_CHARS == 3

\* Bounds of the enumerated inputs.
MaxHeaderCells == 3
MaxWideLines == 2
MaxEdits == 2

None == <<>>

-----------------------------------------------------------------------------
(* Text helpers: str.strip, len, str(int), f-strings.                      *)

IsSpace(c) == c \in {" ", "\t", "\n"}

RECURSIVE LStrip(_)
LStrip(s) == IF s = <<>> \/ ~IsSpace(Head(s)) THEN s ELSE LStrip(Tail(s))

RECURSIVE RStrip(_)
RStrip(s) ==
    IF s = <<>> \/ ~IsSpace(s[Len(s)]) THEN s ELSE RStrip(SubSeq(s, 1, Len(s) - 1))

Strip(s) == RStrip(LStrip(s))

Digit(n) == <<"0", "1", "2", "3", "4", "5", "6", "7", "8", "9">>[n + 1]

RECURSIVE StrOfNat(_)
StrOfNat(n) == IF n < 10 THEN <<Digit(n)>> ELSE StrOfNat(n \div 10) \o <<Digit(n % 10)>>

\* f"col_{idx + 1}", with n = idx + 1
ColName(n) == <<"c", "o", "l", "_">> \o StrOfNat(n)

\* f"{name}_{count}"
Suffixed(name, count) == name \o <<"_">> \o StrOfNat(count)

Range(s) == {s[i] : i \in DOMAIN s}

Max2(a, b) == IF a >= b THEN a ELSE b

RECURSIVE MaxLen(_)
\* max((len(r) for r in rows), default=0)
MaxLen(rows) == IF rows = <<>> THEN 0 ELSE Max2(Len(Head(rows)), MaxLen(Tail(rows)))

-----------------------------------------------------------------------------
(* normalize_csv_headers                                                   *)

\* first loop: strip each raw header, synthesize col_N for a blank or absent one
FilledHeaders(raw, total) ==
    [idx \in 1..total |->
        LET value == IF idx <= Len(raw) THEN Strip(raw[idx]) ELSE <<>>
        IN  IF value = <<>> THEN ColName(idx) ELSE value]

SeenGet(seen, name) == IF name \in DOMAIN seen THEN seen[name] ELSE 0

SeenPut(seen, name, count) ==
    [n \in DOMAIN seen \cup {name} |-> IF n = name THEN count ELSE seen[n]]

RECURSIVE DedupLoop(_, _, _)
\* second loop: for idx, name in enumerate(headers): count occurrences, suffix repeats
DedupLoop(headers, idx, seen) ==
    IF idx > Len(headers) THEN headers
    ELSE LET name == headers[idx]
             count == SeenGet(seen, name) + 1
             renamed == IF count > 1
                        THEN [headers EXCEPT ![idx] = Suffixed(name, count)]
                        ELSE headers
         IN  DedupLoop(renamed, idx + 1, SeenPut(seen, name, count))

normalize_csv_headers(raw, total) == DedupLoop(FilledHeaders(raw, total), 1, <<>>)


-----------------------------------------------------------------------------
(* sanitize_csv_cell                                                       *)

Ellipsis == <<".", ".", ".">>

sanitize_csv_cell(value) ==
    LET cleaned == Strip(value)
    IN  IF Len(cleaned) > MAX_CELL_CHARS
        THEN SubSeq(cleaned, 1, MAX_CELL_CHARS) \o Ellipsis
        ELSE cleaned

-----------------------------------------------------------------------------
(* csv.reader(io.StringIO(text), dialect), for text without quote          *)
(* characters and carriage returns: records end at "\n", fields at the     *)
(* dialect's delimiter, an empty line is a record with no field.           *)

RECURSIVE IndexOf(_, _, _)
\* the first position >= i of character c in s, or 0
IndexOf(s, c, i) ==
    IF i > Len(s) THEN 0 ELSE IF s[i] = c THEN i ELSE IndexOf(s, c, i + 1)

RECURSIVE SplitOn(_, _)
SplitOn(s, c) ==
    LET k == IndexOf(s, c, 1)
    IN  IF k = 0 THEN <<s>>
        ELSE <<SubSeq(s, 1, k - 1)>> \o SplitOn(SubSeq(s, k + 1, Len(s)), c)

\* the lines io.StringIO yields, without their terminators
LinesOf(t) ==
    LET parts == SplitOn(t, "\n")
    IN  IF parts[Len(parts)] = <<>> THEN SubSeq(parts, 1, Len(parts) - 1) ELSE parts

RecordOf(line, dia) ==
    IF line = <<>> THEN <<>>
    ELSE LET fields == SplitOn(line, dia.delimiter)
         IN  IF dia.skipinitialspace
             THEN [i \in DOMAIN fields |-> LStrip(fields[i])]
             ELSE fields

ReadCsv(t, dia) == LET lines == LinesOf(t) IN [i \in DOMAIN lines |-> RecordOf(lines[i], dia)]

-----------------------------------------------------------------------------
(* The dialect both parsers build (src/main.py:1999-2013, 2075-2089).      *)
(* csv.excel is a class; "dialect = csv.excel; dialect.delimiter = d"      *)
(* assigns the attribute of that class, which every later use shares.      *)
(* csv.Sniffer().sniff is library code: it raises csv.Error or returns a   *)
(* dialect of its own making, and the model takes each outcome.            *)

SniffDelimiters == {",", ";"}

Excel(d) == [delimiter |-> d, skipinitialspace |-> FALSE]

\* raised: sniff raised csv.Error; otherwise the dialect it returned
SniffOutcomes ==
    {[raised |-> TRUE, delimiter |-> ",", skipinitialspace |-> FALSE]}
        \cup [raised : {FALSE}, delimiter : SniffDelimiters, skipinitialspace : BOOLEAN]

\* the sniffer is not called when a delimiter is given
NotSniffed == [raised |-> FALSE, delimiter |-> ",", skipinitialspace |-> FALSE]

\* the outcomes of the dialect block: error, dialect used, csv.excel.delimiter afterwards
DialectFor(delim, sniffed, excel) ==
    IF delim # None
    THEN IF Len(delim) # 1
         THEN [error |-> "delimiter", dialect |-> Excel(excel), excel |-> excel]
         ELSE [error |-> "", dialect |-> Excel(delim[1]), excel |-> delim[1]]
    ELSE IF sniffed.raised
         THEN [error |-> "", dialect |-> Excel(","), excel |-> ","]
         ELSE [error |-> "",
               dialect |-> [delimiter |-> sniffed.delimiter,
                            skipinitialspace |-> sniffed.skipinitialspace],
               excel |-> excel]

-----------------------------------------------------------------------------
(* parse_csv_text and parse_csv_text_strict                                *)

Failure(err) ==
    [ok |-> FALSE, error |-> err, headers |-> <<>>, rows |-> <<>>,
     truncated |-> FALSE, delimiter |-> "", row_count |-> 0]

\* not any(cell.strip() for cell in row)
BlankPreview(row) == \A i \in DOMAIN row : Strip(row[i]) = <<>>

\* not any(cell for cell in row)
BlankStrict(row) == \A i \in DOMAIN row : row[i] = <<>>

RECURSIVE PreviewRead(_, _, _, _)
\* the reading loop of parse_csv_text
PreviewRead(records, i, rows, total_rows) ==
    IF i > Len(records) THEN [error |-> "", rows |-> rows, truncated |-> FALSE]
    ELSE IF BlankPreview(records[i]) THEN PreviewRead(records, i + 1, rows, total_rows)
    ELSE IF Len(records[i]) > MAX_CSV_COLUMNS
         THEN [error |-> "columns", rows |-> rows, truncated |-> FALSE]
    ELSE IF total_rows + 1 > MAX_CSV_ROWS
         THEN [error |-> "", rows |-> rows, truncated |-> TRUE]
    ELSE PreviewRead(records, i + 1, Append(rows, records[i]), total_rows + 1)

RECURSIVE StrictReadOffByOne(_, _, _)
\* the reading loop with the row limit compared by >= instead of >
StrictReadOffByOne(records, i, rows) ==
    IF i > Len(records) THEN [error |-> "", rows |-> rows, truncated |-> FALSE]
    ELSE IF BlankStrict(records[i]) THEN StrictReadOffByOne(records, i + 1, rows)
    ELSE IF Len(records[i]) > MAX_CSV_COLUMNS
         THEN [error |-> "columns", rows |-> rows, truncated |-> FALSE]
    ELSE LET appended == Append(rows, records[i])
         IN  IF Len(appended) >= MAX_CSV_ROWS
             THEN [error |-> "rows", rows |-> appended, truncated |-> FALSE]
             ELSE StrictReadOffByOne(records, i + 1, appended)

RECURSIVE StrictRead(_, _, _)
\* the reading loop of parse_csv_text_strict
StrictRead(records, i, rows) ==
    IF i > Len(records) THEN [error |-> "", rows |-> rows, truncated |-> FALSE]
    ELSE IF BlankStrict(records[i]) THEN StrictRead(records, i + 1, rows)
    ELSE IF Len(records[i]) > MAX_CSV_COLUMNS
         THEN [error |-> "columns", rows |-> rows, truncated |-> FALSE]
    ELSE LET appended == Append(rows, records[i])
         IN  IF Len(appended) > MAX_CSV_ROWS
             THEN [error |-> "rows", rows |-> appended, truncated |-> FALSE]
             ELSE StrictRead(records, i + 1, appended)

\* the header block, the same in both parsers
HeaderBlock(rows, hasHeader) ==
    LET raw == IF hasHeader THEN rows[1] ELSE <<>>
        data_rows == IF hasHeader THEN Tail(rows) ELSE rows
        max_columns == Max2(Len(raw), MaxLen(data_rows))
    IN  IF max_columns = 0 THEN [error |-> "no_columns", headers |-> <<>>, data_rows |-> <<>>]
        ELSE IF max_columns > MAX_CSV_COLUMNS
             THEN [error |-> "columns", headers |-> <<>>, data_rows |-> <<>>]
        ELSE [error |-> "",
              headers |-> IF hasHeader THEN normalize_csv_headers(raw, max_columns)
                          ELSE [idx \in 1..max_columns |-> ColName(idx)],
              data_rows |-> data_rows]

\* row + [""] * (len(headers) - len(row)), or row[:len(headers)]
Fit(row, n) == [i \in 1..n |-> IF i <= Len(row) THEN row[i] ELSE <<>>]

\* dict(zip(headers, cells)): a repeated key keeps its last value
ZipDict(headers, cells) ==
    [h \in Range(headers) |->
        cells[CHOOSE i \in DOMAIN headers :
                 headers[i] = h /\ \A j \in DOMAIN headers : j > i => headers[j] # h]]

parse_csv_text(t, dia, hasHeader) ==
    LET read == PreviewRead(ReadCsv(t, dia), 1, <<>>, 0)
    IN  IF read.error # "" THEN Failure(read.error)
        ELSE IF read.rows = <<>> THEN Failure("no_rows")
        ELSE LET hb == HeaderBlock(read.rows, hasHeader)
             IN  IF hb.error # "" THEN Failure(hb.error)
                 ELSE [ok |-> TRUE, error |-> "", headers |-> hb.headers,
                       rows |-> [r \in DOMAIN hb.data_rows |->
                                   ZipDict(hb.headers,
                                       Fit([c \in DOMAIN hb.data_rows[r] |->
                                               sanitize_csv_cell(hb.data_rows[r][c])],
                                           Len(hb.headers)))],
                       truncated |-> read.truncated, delimiter |-> dia.delimiter,
                       row_count |-> Len(hb.data_rows)]

\* for cell in row: if len(cell) > MAX_CELL_CHARS: raise
CellTooLong(row) == \E i \in DOMAIN row : Len(row[i]) > MAX_CELL_CHARS

parse_csv_text_strict(t, dia, hasHeader) ==
    LET read == StrictRead(ReadCsv(t, dia), 1, <<>>)
    IN  IF read.error # "" THEN Failure(read.error)
        ELSE IF read.rows = <<>> THEN Failure("no_rows")
        ELSE LET hb == HeaderBlock(read.rows, hasHeader)
                 fitted == [r \in DOMAIN hb.data_rows |-> Fit(hb.data_rows[r], Len(hb.headers))]
             IN  IF hb.error # "" THEN Failure(hb.error)
                 ELSE IF \E r \in DOMAIN fitted : CellTooLong(fitted[r]) THEN Failure("cell")
                 ELSE [ok |-> TRUE, error |-> "", headers |-> hb.headers,
                       rows |-> [r \in DOMAIN fitted |-> ZipDict(hb.headers, fitted[r])],
                       truncated |-> FALSE, delimiter |-> dia.delimiter,
                       row_count |-> Len(hb.data_rows)]

-----------------------------------------------------------------------------
(* Writing a table back to CSV text (the round trip of the specification,  *)
(* section 8): the header row, then each row's values in header order,     *)
(* fields joined by the delimiter and every record ended by "\n".          *)

RECURSIVE Join(_, _)
Join(cells, d) ==
    IF cells = <<>> THEN <<>>
    ELSE IF Len(cells) = 1 THEN cells[1]
    ELSE cells[1] \o <<d>> \o Join(Tail(cells), d)

RECURSIVE JoinLines(_, _)
JoinLines(rows, d) ==
    IF rows = <<>> THEN <<>> ELSE Join(Head(rows), d) \o <<"\n">> \o JoinLines(Tail(rows), d)

WriteCsv(headers, rows, d) ==
    JoinLines(<<headers>> \o [r \in DOMAIN rows |-> [c \in DOMAIN headers |-> rows[r][headers[c]]]], d)

-----------------------------------------------------------------------------
(* Enumerated inputs of the parsers.                                       *)

CellA == <<"a">>
CellB == <<"b">>
CellA2 == <<"a", "_", "2">>
CellSpace == <<" ">>
CellPadded == <<" ", "a">>
CellEmpty == <<>>
\* a cell longer than the cell limit, also after stripping
CellLong == <<" ">> \o [i \in 1..(MAX_CELL_CHARS + 2) |-> "x"]

\* records of few lines and many fields
WideRows ==
    { <<>>, <<CellA>>, <<CellA, CellA, CellA2>>, <<CellEmpty, CellPadded>>,
      <<CellB, CellLong>>, <<CellLong>>, <<CellA, CellB>>,
      [i \in 1..(MAX_CSV_COLUMNS + 1) |-> CellA] }

\* records of many lines and few fields
TallRows == { <<>>, <<CellSpace>>, <<CellA>> }

SeqsUpTo(S, n) == UNION {[1..k -> S] : k \in 1..n}

Texts ==
    {JoinLines(rows, ",") : rows \in SeqsUpTo(WideRows, MaxWideLines)}
        \cup {JoinLines(rows, ",") : rows \in SeqsUpTo(TallRows, MAX_CSV_ROWS + 2)}

\* None, two one-character delimiters and one that is too long
DelimiterArgs == {None, <<",">>, <<";">>, <<";", ";">>}

NoResult == Failure("none")

-----------------------------------------------------------------------------
(* Values of the variables a specification does not use.                   *)

IdleCsv ==
    /\ text = <<>> /\ delimiter = None /\ has_header = TRUE /\ mode = ""
    /\ dialect = Excel(",") /\ result = NoResult /\ text2 = <<>> /\ result2 = NoResult

IdleHeaders == raw_headers = <<>> /\ total_columns = 0 /\ headers_out = <<>>

NoChange == [row |-> 0, col |-> <<>>, value |-> <<>>, accepted |-> FALSE]

NoResponse == [status |-> 0, detail |-> "", output |-> ""]

IdleLlm ==
    /\ spec = [columns |-> <<>>, rows |-> <<>>] /\ edits = 0
    /\ changed = NoChange
    /\ verdict = [kind |-> "none"] /\ response = NoResponse

IdlePool == call = <<>> /\ queue = <<>> /\ workers = <<>> /\ submitted = 0

IdleFlow ==
    /\ payload = <<>> /\ trace = <<>> /\ templates = {}
    /\ template_text = <<>> /\ template_record = <<>>
    /\ tables_html = <<>> /\ tables_meta = <<>> /\ sent = <<>>
    /\ render_data = <<>> /\ output_html = <<>> /\ reports = <<>>
    /\ sessions = <<>>

csvVars == <<text, delimiter, has_header, mode, dialect, result, text2, result2>>
headerVars == <<raw_headers, total_columns, headers_out>>
llmVars == <<spec, edits, changed, verdict, response>>
poolVars == <<call, queue, workers, submitted>>
flowVars == <<payload, trace, templates, template_text, template_record,
              tables_html, tables_meta, sent, render_data, output_html, reports,
              sessions>>
renderVars == <<poolVars, flowVars>>

-----------------------------------------------------------------------------
(* Calls of the two parsers, and the round trip of what they return.       *)

Parse(m, t, dia, hasHeader) ==
    IF m = "preview" THEN parse_csv_text(t, dia, hasHeader)
    ELSE parse_csv_text_strict(t, dia, hasHeader)

CallParser(m) ==
    /\ pc = "start"
    /\ \E sniffed \in (IF delimiter = None THEN SniffOutcomes ELSE {NotSniffed}) :
          LET d == DialectFor(delimiter, sniffed, excel_delimiter)
          IN  /\ excel_delimiter' = d.excel
              /\ dialect' = d.dialect
              /\ result' = IF d.error # "" THEN Failure(d.error)
                           ELSE Parse(m, text, d.dialect, has_header)
    /\ mode' = m
    /\ pc' = "parsed"
    /\ UNCHANGED <<text, delimiter, has_header, text2, result2>>
    /\ UNCHANGED <<headerVars, renderVars, llmVars>>

PreviewCall == CallParser("preview")

StrictCall == CallParser("strict")

\* write the returned table back and parse it again, the same parser, the same delimiter
RoundTrip ==
    /\ pc = "parsed"
    /\ result.ok
    /\ LET d == DialectFor(<<result.delimiter>>, NotSniffed, excel_delimiter)
           written == WriteCsv(result.headers, result.rows, result.delimiter)
       IN  /\ excel_delimiter' = d.excel
           /\ text2' = written
           /\ result2' = Parse(mode, written, d.dialect, TRUE)
    /\ pc' = "reparsed"
    /\ UNCHANGED <<text, delimiter, has_header, mode, dialect, result>>
    /\ UNCHANGED <<headerVars, renderVars, llmVars>>

InitParse ==
    /\ pc = "start"
    /\ excel_delimiter = ","
    /\ text \in Texts
    /\ delimiter \in DelimiterArgs
    /\ has_header \in BOOLEAN
    /\ mode = "" /\ dialect = Excel(",") /\ result = NoResult
    /\ text2 = <<>> /\ result2 = NoResult
    /\ IdleHeaders /\ IdleLlm /\ IdlePool /\ IdleFlow

NextParse == PreviewCall \/ StrictCall \/ RoundTrip

SpecParse == InitParse /\ [][NextParse]_vars

-----------------------------------------------------------------------------
(* normalize_csv_headers on enumerated raw header rows.                    *)

HeaderCells == {CellA, CellPadded, CellA2, CellEmpty, ColName(2)}

\* the callers pass total_columns = max(len(raw_headers), widest data row) >= 1
InitHeaders ==
    /\ pc = "start"
    /\ excel_delimiter = ","
    /\ raw_headers \in {<<>>} \cup SeqsUpTo(HeaderCells, MaxHeaderCells)
    /\ total_columns \in Max2(1, Len(raw_headers))..MaxHeaderCells
    /\ headers_out = <<>>
    /\ IdleCsv /\ IdleLlm /\ IdlePool /\ IdleFlow

Normalize ==
    /\ pc = "start"
    /\ headers_out' = normalize_csv_headers(raw_headers, total_columns)
    /\ pc' = "normalized"
    /\ UNCHANGED <<excel_delimiter, raw_headers, total_columns, csvVars, llmVars, renderVars>>

NextHeaders == Normalize

SpecHeaders == InitHeaders /\ [][NextHeaders]_vars

-----------------------------------------------------------------------------
(* validate_against_csv.  The value is what the call raised: kind "ok"     *)
(* when it returned, else the ValueError with the data of its message.     *)
(* Row indices are those of the message, from 0.                           *)

Get(row, col) == IF col \in DOMAIN row THEN row[col] ELSE <<>>

\* [col for col in headers if col not in llm_row]
Missing(headers, llm_row) == SelectSeq(headers, LAMBDA col : col \notin DOMAIN llm_row)

\* [col for col in llm_row.keys() if col not in headers], as a set
Extra(headers, llm_row) == {col \in DOMAIN llm_row : col \notin Range(headers)}

RECURSIVE FirstDifference(_, _, _, _)
\* for col in headers: the first col whose values differ, or 0
FirstDifference(headers, csv_row, llm_row, c) ==
    IF c > Len(headers) THEN 0
    ELSE IF Get(llm_row, headers[c]) # Get(csv_row, headers[c]) THEN c
    ELSE FirstDifference(headers, csv_row, llm_row, c + 1)

ContentMismatch(idx, col, csv_value, llm_value) ==
    [kind |-> "content", row |-> idx, col |-> col, expected |-> csv_value, actual |-> llm_value]

RECURSIVE RowsLoopNoExtraCheck(_, _, _, _)
\* the loop without its check for extra keys
RowsLoopNoExtraCheck(sp, headers, rows, i) ==
    IF i > Len(rows) THEN [kind |-> "ok"]
    ELSE LET llm_row == sp.rows[i]
             diff == FirstDifference(headers, rows[i], llm_row, 1)
         IN  IF Missing(headers, llm_row) # <<>>
             THEN [kind |-> "missing", row |-> i - 1, cols |-> Missing(headers, llm_row)]
             ELSE IF diff # 0
             THEN ContentMismatch(i - 1, headers[diff],
                                  Get(rows[i], headers[diff]), Get(llm_row, headers[diff]))
             ELSE RowsLoopNoExtraCheck(sp, headers, rows, i + 1)

RECURSIVE RowsLoopSwapped(_, _, _, _)
\* the loop with the two values of the content message exchanged
RowsLoopSwapped(sp, headers, rows, i) ==
    IF i > Len(rows) THEN [kind |-> "ok"]
    ELSE LET llm_row == sp.rows[i]
             diff == FirstDifference(headers, rows[i], llm_row, 1)
         IN  IF Missing(headers, llm_row) # <<>>
             THEN [kind |-> "missing", row |-> i - 1, cols |-> Missing(headers, llm_row)]
             ELSE IF Extra(headers, llm_row) # {}
             THEN [kind |-> "extra", row |-> i - 1, cols |-> Extra(headers, llm_row)]
             ELSE IF diff # 0
             THEN ContentMismatch(i - 1, headers[diff],
                                  Get(llm_row, headers[diff]), Get(rows[i], headers[diff]))
             ELSE RowsLoopSwapped(sp, headers, rows, i + 1)

RECURSIVE RowsLoopExtraFirst(_, _, _, _)
\* the loop with the check for extra keys made before the check for missing ones
RowsLoopExtraFirst(sp, headers, rows, i) ==
    IF i > Len(rows) THEN [kind |-> "ok"]
    ELSE LET llm_row == sp.rows[i]
             diff == FirstDifference(headers, rows[i], llm_row, 1)
         IN  IF Extra(headers, llm_row) # {}
             THEN [kind |-> "extra", row |-> i - 1, cols |-> Extra(headers, llm_row)]
             ELSE IF Missing(headers, llm_row) # <<>>
             THEN [kind |-> "missing", row |-> i - 1, cols |-> Missing(headers, llm_row)]
             ELSE IF diff # 0
             THEN ContentMismatch(i - 1, headers[diff],
                                  Get(rows[i], headers[diff]), Get(llm_row, headers[diff]))
             ELSE RowsLoopExtraFirst(sp, headers, rows, i + 1)

RECURSIVE RowsLoop(_, _, _, _)
\* for idx, csv_row in enumerate(rows): missing keys, extra keys, then the values
RowsLoop(sp, headers, rows, i) ==
    IF i > Len(rows) THEN [kind |-> "ok"]
    ELSE LET llm_row == sp.rows[i]
             diff == FirstDifference(headers, rows[i], llm_row, 1)
         IN  IF Missing(headers, llm_row) # <<>>
             THEN [kind |-> "missing", row |-> i - 1, cols |-> Missing(headers, llm_row)]
             ELSE IF Extra(headers, llm_row) # {}
             THEN [kind |-> "extra", row |-> i - 1, cols |-> Extra(headers, llm_row)]
             ELSE IF diff # 0
             THEN ContentMismatch(i - 1, headers[diff],
                                  Get(rows[i], headers[diff]), Get(llm_row, headers[diff]))
             ELSE RowsLoop(sp, headers, rows, i + 1)

validate_against_csv(sp, headers, rows) ==
    IF sp.columns # headers
    THEN [kind |-> "columns", csv |-> headers, llm |-> sp.columns]
    ELSE IF Len(sp.rows) # Len(rows)
    THEN [kind |-> "row_count", csv |-> Len(rows), llm |-> Len(sp.rows)]
    ELSE RowsLoop(sp, headers, rows, 1)

-----------------------------------------------------------------------------
(* A request for a table generated from a CSV: render_csv_with_llm, and    *)
(* each table of render_with_tables, call generate_llm_html_from_csv and   *)
(* catch nothing.  An HTTPException is answered with its status; any       *)
(* other exception leaves the handler and the framework answers 500.       *)
(* The generator is external: its TableSpec is the transcription of the    *)
(* parsed table changed in up to MaxEdits places.                          *)

Line1 == <<CellA, CellB>>
Cell1 == <<"1">>
Cell2 == <<"2">>
Cell3 == <<"3">>
Cell4 == <<"4">>
Cell9 == <<"9">>
KeyX == <<"x">>

RequestTexts ==
    { JoinLines(<<Line1, <<Cell1, Cell2>>, <<Cell3, Cell4>>>>, ","),
      JoinLines(<<<<CellA, CellA, CellA2>>, <<Cell1, Cell2, Cell3>>>>, ","),
      JoinLines(<<<<>>, <<>>>>, ",") }

InitRequest ==
    /\ pc = "start"
    /\ excel_delimiter = ","
    /\ text \in RequestTexts
    /\ delimiter = <<",">>
    /\ has_header \in BOOLEAN
    /\ mode = "" /\ dialect = Excel(",") /\ result = NoResult
    /\ text2 = <<>> /\ result2 = NoResult
    /\ IdleHeaders /\ IdleLlm /\ IdlePool /\ IdleFlow

\* headers, rows, used_delimiter = parse_csv_text_strict(csv_text, delimiter, has_header)
ParseTable ==
    /\ pc = "start"
    /\ LET d == DialectFor(delimiter, NotSniffed, excel_delimiter)
           parsed == IF d.error # "" THEN Failure(d.error)
                     ELSE parse_csv_text_strict(text, d.dialect, has_header)
       IN  /\ excel_delimiter' = d.excel
           /\ dialect' = d.dialect
           /\ result' = parsed
           /\ IF parsed.ok
              THEN pc' = "generate" /\ UNCHANGED response
              ELSE /\ pc' = "done"
                   /\ response' = [status |-> 400, detail |-> parsed.error, output |-> ""]
    /\ mode' = "strict"
    /\ UNCHANGED <<text, delimiter, has_header, text2, result2>>
    /\ UNCHANGED <<headerVars, renderVars, spec, edits, changed, verdict>>

\* generate_llm_spec raised: 501 when the client library is absent, 400 when the call failed
GenerateFails ==
    /\ pc = "generate"
    /\ \E r \in {[status |-> 501, detail |-> "dependencies", output |-> ""],
                 [status |-> 400, detail |-> "llm", output |-> ""]} : response' = r
    /\ pc' = "done"
    /\ UNCHANGED <<excel_delimiter, csvVars, headerVars, renderVars, spec, edits, changed, verdict>>

\* generate_llm_spec returned a TableSpec
GenerateSpec ==
    /\ pc = "generate"
    /\ spec' = [columns |-> result.headers, rows |-> result.rows]
    /\ edits' = 0
    /\ changed' = NoChange
    /\ pc' = "generated"
    /\ UNCHANGED <<excel_delimiter, csvVars, headerVars, renderVars, verdict, response>>

Deviate(sp, ch) ==
    /\ pc = "generated"
    /\ edits < MaxEdits
    /\ spec' = sp
    /\ changed' = ch
    /\ edits' = edits + 1
    /\ UNCHANGED <<pc, excel_delimiter, csvVars, headerVars, renderVars, verdict, response>>

\* the generator gives one cell another value
ChangeCell ==
    \E i \in DOMAIN spec.rows : \E col \in DOMAIN spec.rows[i] : \E v \in {Cell9, CellEmpty} :
        /\ v # spec.rows[i][col]
        /\ Deviate([spec EXCEPT !.rows[i][col] = v],
                   [row |-> i, col |-> col, value |-> v,
                    accepted |-> validate_against_csv(spec, result.headers, result.rows).kind = "ok"])

\* the generator leaves a key out of a row
DropKey ==
    \E i \in DOMAIN spec.rows : \E col \in DOMAIN spec.rows[i] :
        Deviate([spec EXCEPT !.rows[i] = [k \in DOMAIN spec.rows[i] \ {col} |-> spec.rows[i][k]]],
                NoChange)

\* the generator adds a key that is no header to a row
AddKey ==
    \E i \in DOMAIN spec.rows :
        /\ KeyX \notin DOMAIN spec.rows[i]
        /\ Deviate([spec EXCEPT !.rows[i] =
                       [k \in DOMAIN spec.rows[i] \cup {KeyX} |->
                           IF k = KeyX THEN Cell9 ELSE spec.rows[i][k]]],
                   NoChange)

\* the generator leaves the last row out
DropRow ==
    /\ spec.rows # <<>>
    /\ Deviate([spec EXCEPT !.rows = SubSeq(spec.rows, 1, Len(spec.rows) - 1)], NoChange)

\* the generator repeats the last row
AddRow ==
    /\ spec.rows # <<>>
    /\ Deviate([spec EXCEPT !.rows = Append(spec.rows, spec.rows[Len(spec.rows)])], NoChange)

\* the generator reorders, shortens or extends the columns
ChangeColumns ==
    \E cols \in { [c \in DOMAIN spec.columns |-> spec.columns[Len(spec.columns) + 1 - c]],
                  SubSeq(spec.columns, 1, Len(spec.columns) - 1),
                  Append(spec.columns, KeyX) } :
        /\ cols # spec.columns
        /\ Deviate([spec EXCEPT !.columns = cols], NoChange)

\* validate_against_csv(spec, headers, rows)
Validate ==
    /\ pc = "generated"
    /\ verdict' = validate_against_csv(spec, result.headers, result.rows)
    /\ pc' = "validated"
    /\ UNCHANGED <<excel_delimiter, csvVars, headerVars, renderVars, spec, edits, changed, response>>

\* the ValueError is caught nowhere; otherwise the table is rendered and returned
Respond ==
    /\ pc = "validated"
    /\ response' = IF verdict.kind = "ok"
                   THEN [status |-> 200, detail |-> "", output |-> "table_html"]
                   ELSE [status |-> 500, detail |-> "Internal Server Error", output |-> ""]
    /\ pc' = "done"
    /\ UNCHANGED <<excel_delimiter, csvVars, headerVars, renderVars, spec, edits, changed, verdict>>

NextRequest ==
    \/ ParseTable \/ GenerateFails \/ GenerateSpec
    \/ ChangeCell \/ DropKey \/ AddKey \/ DropRow \/ AddRow \/ ChangeColumns
    \/ Validate \/ Respond

SpecRequest == InitRequest /\ [][NextRequest]_vars

-----------------------------------------------------------------------------
(* Properties of the table-spec validator and of the request around it.    *)

Validated == pc = "validated"

ColumnsAgree == spec.columns = result.headers

RowCountsAgree == Len(spec.rows) = Len(result.rows)

\* row i of the candidate has a value for every header, equal to the CSV's
ValuesAgree(i) ==
    \A h \in Range(result.headers) :
        h \in DOMAIN spec.rows[i] /\ spec.rows[i][h] = result.rows[i][h]

\* row i of the candidate has no key that is not a header
NoExtraKeys(i) == DOMAIN spec.rows[i] \subseteq Range(result.headers)

\* C1 (as amended): validate_against_csv succeeds if and only if spec.columns equals
\* headers, the candidate has as many rows as the CSV, and every candidate row has a
\* value equal to the CSV's for every header and no key beyond the headers.
C1_AcceptsExactlyTheTranscription ==
    Validated =>
        (verdict.kind = "ok" <=>
            /\ ColumnsAgree
            /\ RowCountsAgree
            /\ \A i \in DOMAIN spec.rows : ValuesAgree(i) /\ NoExtraKeys(i))

\* a candidate whose values all agree and that carries extra keys has been rejected
C1_Witness ==
    /\ Validated /\ ColumnsAgree /\ RowCountsAgree
    /\ \A i \in DOMAIN spec.rows : ValuesAgree(i)
    /\ \E i \in DOMAIN spec.rows : ~NoExtraKeys(i)
    /\ verdict.kind = "extra"

\* C1 (as claimed): the same equivalence for every candidate, rows with keys beyond the
\* headers included.
C1_AsClaimed ==
    Validated =>
        (verdict.kind = "ok" <=>
            /\ ColumnsAgree
            /\ RowCountsAgree
            /\ \A i \in DOMAIN spec.rows : ValuesAgree(i))

\* C2: a candidate that was accepted and then had the value of one cell (row i, column c)
\* changed is rejected with the content mismatch that names row i, column c, the CSV
\* value as expected and the changed value as actual.
C2_ChangedCellIsNamed ==
    Validated /\ changed.row # 0 /\ changed.accepted =>
        verdict = ContentMismatch(changed.row - 1, changed.col,
                                  result.rows[changed.row][changed.col], changed.value)

C2_Witness ==
    /\ Validated /\ changed.row > 1 /\ changed.accepted
    /\ changed.col # result.headers[1]
    /\ verdict.kind = "content"

\* what the checks of one row find, in the order the loop makes them
RowFault(i) ==
    IF Missing(result.headers, spec.rows[i]) # <<>> THEN "missing"
    ELSE IF Extra(result.headers, spec.rows[i]) # {} THEN "extra"
    ELSE IF FirstDifference(result.headers, result.rows[i], spec.rows[i], 1) # 0 THEN "content"
    ELSE "ok"

FaultyRows == {i \in DOMAIN result.rows : RowFault(i) # "ok"}

C4_MismatchIsAnswered400 ==
    pc = "done" /\ verdict.kind \notin {"none", "ok"} =>
        response.status = 400 /\ response.detail = verdict.kind /\ response.output = ""

-----------------------------------------------------------------------------
(* Properties of the CSV ingester.                                         *)

Distinct(s) == \A i, j \in DOMAIN s : i # j => s[i] # s[j]

\* C5: the headers normalize_csv_headers returns are pairwise distinct, for every
\* list of raw header cells and every total column count.
C5_HeadersUnique == pc = "normalized" => Distinct(headers_out)

Returned == pc \in {"parsed", "reparsed"} /\ result.ok

\* C6: every row mapping of a returned table has exactly len(headers) entries, one for
\* each header, a short source row being padded with empty strings.
C6_RowsMatchHeaders ==
    Returned =>
        \A r \in DOMAIN result.rows :
            /\ DOMAIN result.rows[r] = Range(result.headers)
            /\ Cardinality(DOMAIN result.rows[r]) = Len(result.headers)

\* the records the reader yields for the call, when its dialect block did not raise
Called == pc \in {"parsed", "reparsed"} /\ result.error # "delimiter"

Records == ReadCsv(text, dialect)

NonBlankStrict == {i \in DOMAIN Records : ~BlankStrict(Records[i])}

NonBlankPreview == {i \in DOMAIN Records : ~BlankPreview(Records[i])}

NoWideRecord == \A i \in DOMAIN Records : Len(Records[i]) <= MAX_CSV_COLUMNS

\* C7: the strict parser raises the row-limit error only when more than MAX_CSV_ROWS
\* records are not skipped as blank, never returns a table then, raises exactly that
\* error when no record is too wide, and accepts a CSV of at most MAX_CSV_ROWS such
\* records that breaks no other limit; the preview parser never raises the row-limit
\* error, returns a table whenever some record is not blank and none is too wide, returns
\* at most MAX_CSV_ROWS rows, and sets truncated exactly when more than MAX_CSV_ROWS
\* records are not blank.
C7_RowLimit ==
    Called =>
        /\ mode = "strict" =>
              /\ result.error = "rows" => Cardinality(NonBlankStrict) > MAX_CSV_ROWS
              /\ Cardinality(NonBlankStrict) > MAX_CSV_ROWS => ~result.ok
              /\ Cardinality(NonBlankStrict) > MAX_CSV_ROWS /\ NoWideRecord
                    => result.error = "rows"
              /\ /\ Cardinality(NonBlankStrict) \in 1..MAX_CSV_ROWS
                 /\ NoWideRecord
                 /\ \A i \in DOMAIN Records : ~CellTooLong(Records[i])
                 => result.ok
        /\ mode = "preview" =>
              /\ result.error # "rows"
              /\ NoWideRecord /\ NonBlankPreview # {} => result.ok
              /\ result.ok =>
                    /\ Len(result.rows) <= MAX_CSV_ROWS
                    /\ result.truncated <=> Cardinality(NonBlankPreview) > MAX_CSV_ROWS

C7_Witness ==
    /\ pc = "parsed" /\ mode = "strict" /\ result.error = "rows"
    /\ Cardinality(NonBlankStrict) = MAX_CSV_ROWS + 1
    /\ Len(Records) > Cardinality(NonBlankStrict)

\* C8: the strict parser fails whenever a cell of the CSV is longer than MAX_CELL_CHARS.
C8_StrictRejectsLongCell ==
    Called /\ mode = "strict"
        /\ (\E i \in DOMAIN Records : CellTooLong(Records[i]))
        => ~result.ok

\* C9: writing a returned table back to CSV text with the same delimiter and parsing
\* that text again yields the same headers and the same rows.
C9_RoundTrip ==
    pc = "reparsed" =>
        result2.ok /\ result2.headers = result.headers /\ result2.rows = result.rows

\* C10: a call of a parser leaves the state shared between calls unchanged.
C10_NoSideEffect == [][excel_delimiter' = excel_delimiter]_vars


-----------------------------------------------------------------------------
(* Template evaluation: render_html on jinja_env, a sandboxed environment  *)
(* with undefined=StrictUndefined.  A template is a sequence of tokens and *)
(* a context maps names to values.  An optional value (Python's None) is a *)
(* sequence of length 0 or 1, so that None and "" are told apart.          *)

Some(x) == <<x>>

IsNone(opt) == opt = <<>>

Value(opt) == opt[1]

\* values of a context: str, bool, list of str, dict from str to str
StrVal(s) == [ty |-> "str", v |-> s]
BoolVal(b) == [ty |-> "bool", v |-> b]
ListVal(xs) == [ty |-> "list", v |-> xs]
DictVal(pairs) == [ty |-> "dict", v |-> pairs]

\* a dict is kept as the sequence of its (key, value) pairs, in insertion order
HasKey(pairs, k) == \E i \in 1..Len(pairs) : pairs[i].key = k

Lookup(pairs, k) == pairs[CHOOSE i \in 1..Len(pairs) : pairs[i].key = k].value

\* tokens: text, {{ n }}, {{ n[k] }}, {% if n %}s{% endif %} with the tokens s,
\* {% for item in n %}{{ item }}s{% endfor %} with the text s, an evaluation
\* that never ends, an evaluation that ends after a time nobody bounds, and
\* text jinja cannot compile
Lit(s) == [t |-> "lit", n |-> "", k |-> <<>>, s |-> s]
Var(n) == [t |-> "var", n |-> n, k |-> <<>>, s |-> <<>>]
Item(n, k) == [t |-> "item", n |-> n, k |-> k, s |-> <<>>]
If(n, s) == [t |-> "if", n |-> n, k |-> <<>>, s |-> s]
For(n, s) == [t |-> "for", n |-> n, k |-> <<>>, s |-> s]
Forever == [t |-> "forever", n |-> "", k |-> <<>>, s |-> <<>>]
Work == [t |-> "work", n |-> "", k |-> <<>>, s |-> <<>>]
Malformed == [t |-> "malformed", n |-> "", k |-> <<>>, s |-> <<>>]

\* bool(value)
Truthy(val) == IF val.ty = "bool" THEN val.v ELSE val.v # <<>>

RECURSIVE Concat(_)
Concat(xs) == IF xs = <<>> THEN <<>> ELSE Head(xs) \o Concat(Tail(xs))

\* str(value) of what the templates print: strings and booleans
ToText(val) ==
    CASE val.ty = "str" -> val.v
      [] val.ty = "bool" -> IF val.v THEN <<"T", "r", "u", "e">>
                            ELSE <<"F", "a", "l", "s", "e">>

Rendered(out) == [kind |-> "ok", out |-> out, exc |-> ""]
Raised(exc) == [kind |-> "raise", out |-> <<>>, exc |-> exc]
NeverEnds == [kind |-> "never", out |-> <<>>, exc |-> ""]

RECURSIVE RenderTokens(_, _, _)

\* StrictUndefined: printing, testing or iterating an undefined name raises
StrictToken(tok, data) ==
    CASE tok.t = "lit" -> Rendered(tok.s)
      [] tok.t = "work" -> Rendered(<<>>)
      [] tok.t = "forever" -> NeverEnds
      [] tok.t = "var" ->
            IF tok.n \in DOMAIN data THEN Rendered(ToText(data[tok.n]))
            ELSE Raised("UndefinedError")
      [] tok.t = "item" ->
            IF /\ tok.n \in DOMAIN data
               /\ data[tok.n].ty = "dict"
               /\ HasKey(data[tok.n].v, tok.k)
            THEN Rendered(Lookup(data[tok.n].v, tok.k))
            ELSE Raised("UndefinedError")
      [] tok.t = "if" ->
            IF tok.n \in DOMAIN data
            THEN IF Truthy(data[tok.n]) THEN RenderTokens(tok.s, data, <<>>)
                 ELSE Rendered(<<>>)
            ELSE Raised("UndefinedError")
      [] tok.t = "for" ->
            IF tok.n \in DOMAIN data /\ data[tok.n].ty = "list"
            THEN Rendered(Concat([i \in 1..Len(data[tok.n].v) |-> data[tok.n].v[i] \o tok.s]))
            ELSE Raised("UndefinedError")

\* the default Undefined of jinja2, which prints as "" and tests false
LenientToken(tok, data) ==
    IF tok.t \in {"var", "item", "if", "for"} /\ StrictToken(tok, data).kind = "raise"
    THEN Rendered(<<>>)
    ELSE StrictToken(tok, data)

jinja_env(tok, data) == StrictToken(tok, data)

RenderTokens(tokens, data, out) ==
    IF tokens = <<>> THEN Rendered(out)
    ELSE LET r == jinja_env(Head(tokens), data)
         IN  IF r.kind = "ok" THEN RenderTokens(Tail(tokens), data, out \o r.out)
             ELSE r

\* template = jinja_env.from_string(template_text); return template.render(**data)
render_html(template, data) ==
    IF \E i \in 1..Len(template) : template[i].t = "malformed"
    THEN Raised("TemplateSyntaxError")
    ELSE RenderTokens(template, data, <<>>)

\* whether the evaluation reaches a computation of unbounded (finite) duration
RECURSIVE ReachesWork(_, _)
ReachesWork(tokens, data) ==
    /\ tokens # <<>>
    /\ \/ Head(tokens).t = "work"
       \/ /\ jinja_env(Head(tokens), data).kind = "ok"
          /\ ReachesWork(Tail(tokens), data)

Speed(req) ==
    LET r == render_html(req.template, req.data)
    IN  IF r.kind = "never" THEN "never"
        ELSE IF r.kind = "raise" /\ r.exc = "TemplateSyntaxError" THEN "fast"
        ELSE IF ReachesWork(req.template, req.data) THEN "slow"
        ELSE "fast"


-----------------------------------------------------------------------------
(* render_html_safe and render_executor.  The source sets MAX_OUTPUT_CHARS *)
(* = 1000000 (src/main.py:389); the model scales it down to a length that  *)
(* holds the documents of the request handlers.  Time is counted in        *)
(* seconds: MAX_RENDER_SECONDS = 2.0 and max_workers = 4 as the source.    *)

MAX_OUTPUT_CHARS == 600
MAX_RENDER_SECONDS == 2
max_workers == 4

\* how many jobs the request threads submit in one behaviour
MaxJobs == max_workers + 1

\* the request threads that call render_html_safe at the same time
Callers == {"t1", "t2"}

Failed(msg, exc) == [output |-> <<>>, error |-> Some([msg |-> msg, exc |-> exc])]

\* except FutureTimeoutError
TimedOut == Failed("Tempo limite de render", "")

\* the rest of render_html_safe, once future.result returned or raised: no length check
CompletedUnchecked(outcome) ==
    IF outcome.kind = "raise" THEN Failed("Erro no template", outcome.exc)
    ELSE [output |-> Some(outcome.out), error |-> <<>>]

\* the rest of render_html_safe, once future.result returned or raised
Completed(outcome) ==
    IF outcome.kind = "raise" THEN Failed("Erro no template", outcome.exc)
    ELSE IF Len(outcome.out) > MAX_OUTPUT_CHARS THEN Failed("Saida muito longa", "")
    ELSE [output |-> Some(outcome.out), error |-> <<>>]

\* everything a call of render_html_safe can return, whatever the pool is doing
render_html_safe(template, data) ==
    LET outcome == render_html(template, data)
    IN  {TimedOut, Failed("Erro no template", "RuntimeError")}
            \cup (IF outcome.kind = "never" THEN {} ELSE {Completed(outcome)})

Repeat(c, n) == [i \in 1..n |-> c]

NoData == <<>>
DataX == [n \in {"x"} |-> StrVal(<<"v">>)]
DataXEmpty == [n \in {"x"} |-> StrVal(<<>>)]

Request(template, data) == [template |-> template, data |-> data]

RenderRequests ==
    { Request(<<Lit(<<"a", "b">>)>>, NoData),
      Request(<<Lit(<<"a">>), Var("x")>>, NoData),
      Request(<<Lit(<<"a">>), Var("x")>>, DataX),
      Request(<<If("x", <<Lit(<<"a">>)>>)>>, DataXEmpty),
      Request(<<Lit(Repeat("x", MAX_OUTPUT_CHARS))>>, NoData),
      Request(<<Lit(Repeat("x", MAX_OUTPUT_CHARS + 1))>>, NoData),
      Request(<<Malformed>>, NoData),
      Request(<<Work, Lit(<<"a">>)>>, NoData),
      Request(<<Lit(<<"a">>), Forever>>, NoData) }

NoRequest == Request(<<>>, NoData)

NoReturn == [output |-> <<>>, error |-> <<>>]

NoCall == [pc |-> "idle", req |-> NoRequest, waited |-> 0, future |-> <<>>,
           result |-> NoReturn]

\* a job of render_executor: the function submitted, its arguments and the
\* thread that waits for its future
Job(req, owner) == [req |-> req, owner |-> owner, work |-> "render_html"]

RemoveAt(seq, i) == SubSeq(seq, 1, i - 1) \o SubSeq(seq, i + 1, Len(seq))

\* a timed-out caller drops its future; the job stays where it is
Abandon(jobs, c) ==
    [i \in 1..Len(jobs) |->
        IF jobs[i].owner = c THEN [jobs[i] EXCEPT !.owner = "abandoned"] ELSE jobs[i]]

Waiting(c) == call[c].pc = "waiting"

\* future.result(timeout=MAX_RENDER_SECONDS) gives up one second late
DueLate(c) == call[c].waited >= MAX_RENDER_SECONDS + 1

\* future.result(timeout=MAX_RENDER_SECONDS) gives up
Due(c) == call[c].waited >= MAX_RENDER_SECONDS

\* future = render_executor.submit(render_html, template_text, data)
Submit(c, req) ==
    /\ call[c].pc \in {"idle", "returned"}
    /\ submitted < MaxJobs
    /\ submitted' = submitted + 1
    /\ queue' = Append(queue, Job(req, c))
    /\ call' = [call EXCEPT ![c] = [pc |-> "waiting", req |-> req, waited |-> 0,
                                    future |-> <<>>, result |-> NoReturn]]
    /\ UNCHANGED workers

\* submit raises RuntimeError (no thread can be started): except Exception
SubmitFails(c, req) ==
    /\ call[c].pc \in {"idle", "returned"}
    /\ submitted < MaxJobs
    /\ submitted' = submitted + 1
    /\ call' = [call EXCEPT ![c] = [pc |-> "returned", req |-> req, waited |-> 0,
                                    future |-> <<>>,
                                    result |-> Failed("Erro no template", "RuntimeError")]]
    /\ UNCHANGED <<queue, workers>>

\* a worker thread is started for the job even when max_workers are running
StartOneMore ==
    /\ queue # <<>>
    /\ Len(workers) <= max_workers
    /\ workers' = Append(workers, Head(queue))
    /\ queue' = Tail(queue)
    /\ UNCHANGED <<call, submitted>>

\* a free worker thread takes the oldest job of the queue
Start ==
    /\ queue # <<>>
    /\ Len(workers) < max_workers
    /\ workers' = Append(workers, Head(queue))
    /\ queue' = Tail(queue)
    /\ UNCHANGED <<call, submitted>>

\* the job ends and its future is given what the oldest running job computes
FinishCrossed(i) ==
    /\ i \in 1..Len(workers)
    /\ workers[i].work = "render_html"
    /\ Speed(workers[i].req) # "never"
    /\ workers' = RemoveAt(workers, i)
    /\ call' = IF workers[i].owner \in Callers
               THEN [call EXCEPT ![workers[i].owner].future =
                        Some(render_html(workers[1].req.template, workers[1].req.data))]
               ELSE call
    /\ UNCHANGED <<queue, submitted>>

\* render_html returns or raises in its worker thread, which becomes free
Finish(i) ==
    /\ i \in 1..Len(workers)
    /\ workers[i].work = "render_html"
    /\ Speed(workers[i].req) # "never"
    /\ workers' = RemoveAt(workers, i)
    /\ call' = IF workers[i].owner \in Callers
               THEN [call EXCEPT ![workers[i].owner].future =
                        Some(render_html(workers[i].req.template, workers[i].req.data))]
               ELSE call
    /\ UNCHANGED <<queue, submitted>>

\* a second passes: only when no thread has a step it takes at once
Tick ==
    /\ \E c \in Callers : Waiting(c)
    /\ \A c \in Callers : Waiting(c) => ~Due(c)
    /\ ~(queue # <<>> /\ Len(workers) < max_workers)
    /\ \A i \in 1..Len(workers) : Speed(workers[i].req) # "fast"
    /\ call' = [c \in Callers |->
                    IF Waiting(c) THEN [call[c] EXCEPT !.waited = @ + 1] ELSE call[c]]
    /\ UNCHANGED <<queue, workers, submitted>>

\* output_html = future.result(...) returned or raised what render_html did
Return(c) ==
    /\ Waiting(c)
    /\ ~IsNone(call[c].future)
    /\ call' = [call EXCEPT ![c].pc = "returned",
                            ![c].result = Completed(Value(call[c].future))]
    /\ UNCHANGED <<queue, workers, submitted>>

\* future.result(...) raised FutureTimeoutError; nothing cancels the job
Timeout(c) ==
    /\ Waiting(c)
    /\ IsNone(call[c].future)
    /\ Due(c)
    /\ call' = [call EXCEPT ![c].pc = "returned", ![c].result = TimedOut]
    /\ queue' = Abandon(queue, c)
    /\ workers' = Abandon(workers, c)
    /\ UNCHANGED submitted

restOfRender == <<pc, excel_delimiter, csvVars, headerVars, llmVars, flowVars>>

InitRender ==
    /\ pc = "serving"
    /\ excel_delimiter = ","
    /\ call = [c \in Callers |-> NoCall]
    /\ queue = <<>> /\ workers = <<>> /\ submitted = 0
    /\ IdleCsv /\ IdleHeaders /\ IdleLlm /\ IdleFlow

NextRender ==
    \/ \E c \in Callers, req \in RenderRequests :
          Submit(c, req) /\ UNCHANGED restOfRender
    \/ \E c \in Callers, req \in RenderRequests :
          SubmitFails(c, req) /\ UNCHANGED restOfRender
    \/ Start /\ UNCHANGED restOfRender
    \/ \E i \in 1..max_workers : Finish(i) /\ UNCHANGED restOfRender
    \/ Tick /\ UNCHANGED restOfRender
    \/ \E c \in Callers : Return(c) /\ UNCHANGED restOfRender
    \/ \E c \in Callers : Timeout(c) /\ UNCHANGED restOfRender

\* threads are scheduled and the clock advances; nothing makes a slow job end
FairRender ==
    /\ WF_vars(Start /\ UNCHANGED restOfRender)
    /\ WF_vars(Tick /\ UNCHANGED restOfRender)
    /\ \A i \in 1..max_workers :
          WF_vars(Finish(i) /\ Speed(workers[i].req) = "fast" /\ UNCHANGED restOfRender)
    /\ \A c \in Callers : WF_vars(Return(c) /\ UNCHANGED restOfRender)
    /\ \A c \in Callers : WF_vars(Timeout(c) /\ UNCHANGED restOfRender)

SpecRender == InitRender /\ [][NextRender]_vars

\* the pool as earlier requests left it: some of its workers run abandoned jobs
\* that never end, and the request threads have two more calls to make
EndlessJobs(k) == [i \in 1..k |-> Job(Request(<<Lit(<<"a">>), Forever>>, NoData), "abandoned")]

InitRenderBusy ==
    /\ pc = "serving"
    /\ excel_delimiter = ","
    /\ call = [c \in Callers |-> NoCall]
    /\ queue = <<>>
    /\ \E k \in 0..(max_workers - 1) : workers = EndlessJobs(k)
    /\ submitted = MaxJobs - 2
    /\ IdleCsv /\ IdleHeaders /\ IdleLlm /\ IdleFlow

SpecRenderLive == InitRenderBusy /\ [][NextRender]_vars /\ FairRender


-----------------------------------------------------------------------------
(* Properties of render_html_safe.                                         *)

HasReturned(c) == call[c].pc = "returned"

\* the job of the call ran to its end before the call returned
Evaluated(c) == HasReturned(c) /\ ~IsNone(call[c].future)

TooLarge == Failed("Saida muito longa", "")

\* C11: every call of render_html_safe returns either an output and no error
\* or an error and no output; a returned output is at most MAX_OUTPUT_CHARS
\* long, and an evaluation that succeeds with a longer output is reported as
\* the output-too-large failure.
C11_OutputOrError ==
    \A c \in Callers :
        HasReturned(c) =>
            LET r == call[c].result
            IN  /\ IsNone(r.output) # IsNone(r.error)
                /\ ~IsNone(r.output) => Len(Value(r.output)) <= MAX_OUTPUT_CHARS
                /\ ( /\ Evaluated(c)
                     /\ Value(call[c].future).kind = "ok"
                     /\ Len(Value(call[c].future).out) > MAX_OUTPUT_CHARS )
                   => r = TooLarge

\* one call returned the output-too-large failure, another an output of the full length
C11_Witness ==
    /\ call["t1"].pc = "returned" /\ call["t1"].result = TooLarge
    /\ call["t2"].pc = "returned" /\ ~IsNone(call["t2"].result.output)
    /\ Len(Value(call["t2"].result.output)) = MAX_OUTPUT_CHARS

\* the template prints, tests or iterates a name the context does not have
MissingVariable(req) ==
    /\ \A i \in 1..Len(req.template) : req.template[i].t \notin {"malformed", "forever"}
    /\ \E i \in 1..Len(req.template) :
          /\ req.template[i].t \in {"var", "item", "if", "for"}
          /\ req.template[i].n \notin DOMAIN req.data

\* C12: render_html_safe never raises; every exception raised while
\* submitting or evaluating, the one of a template that references a variable
\* absent from the context included, is returned as a template error with no
\* output.
C12_ExceptionsReturned ==
    \A c \in Callers :
        /\ call[c].pc \in {"idle", "waiting", "returned"}
        /\ HasReturned(c) =>
              /\ call[c].result \in render_html_safe(call[c].req.template, call[c].req.data)
              /\ ( Evaluated(c) /\ Value(call[c].future).kind = "raise" ) =>
                    call[c].result =
                        Failed("Erro no template", Value(call[c].future).exc)
              /\ ( Evaluated(c) /\ MissingVariable(call[c].req) ) =>
                    call[c].result = Failed("Erro no template", "UndefinedError")

\* one call failed on an absent variable, another because submit raised
C12_Witness ==
    /\ Evaluated("t1") /\ MissingVariable(call["t1"].req)
    /\ call["t2"].pc = "returned" /\ IsNone(call["t2"].future)
    /\ call["t2"].result = Failed("Erro no template", "RuntimeError")

\* C13: every call of render_html_safe returns; a call whose job has not
\* completed MAX_RENDER_SECONDS after it was submitted returns the
\* render-timeout failure at that point, and no call waits longer.
C13_TimeoutEnforced ==
    /\ \A c \in Callers : Waiting(c) ~> HasReturned(c)
    /\ [](\A c \in Callers :
            /\ call[c].waited <= MAX_RENDER_SECONDS
            /\ (HasReturned(c) /\ call[c].result = TimedOut)
                  <=> ( /\ HasReturned(c)
                        /\ IsNone(call[c].future)
                        /\ call[c].waited = MAX_RENDER_SECONDS ))

\* the pool is full of jobs that never end, and a call whose job was still
\* queued has returned the timeout
C13_Witness ==
    /\ Len(workers) = max_workers
    /\ \A i \in 1..Len(workers) : Speed(workers[i].req) = "never"
    /\ queue # <<>>
    /\ \E c \in Callers :
          /\ HasReturned(c) /\ call[c].result = TimedOut
          /\ Speed(call[c].req) = "fast"

-----------------------------------------------------------------------------
(* Text of documents: case folding, search, whole words (re's \b and \w).  *)
(* Accented letters are written without their accent.                      *)

UpperCase ==
    <<"A", "B", "C", "D", "E", "F", "G", "H", "I", "J", "K", "L", "M", "N",
      "O", "P", "Q", "R", "S", "T", "U", "V", "W", "X", "Y", "Z">>

LowerCase ==
    <<"a", "b", "c", "d", "e", "f", "g", "h", "i", "j", "k", "l", "m", "n",
      "o", "p", "q", "r", "s", "t", "u", "v", "w", "x", "y", "z">>

LowerChar(c) ==
    IF \E i \in 1..Len(UpperCase) : UpperCase[i] = c
    THEN LowerCase[CHOOSE i \in 1..Len(UpperCase) : UpperCase[i] = c]
    ELSE c

\* str.lower
Lower(s) == [i \in 1..Len(s) |-> LowerChar(s[i])]

\* \w
IsWordChar(c) ==
    \/ c \in Range(UpperCase) \cup Range(LowerCase) \cup {"_"}
    \/ c \in {Digit(d) : d \in 0..9}

StartsAt(s, sub, p) ==
    /\ p >= 1
    /\ p + Len(sub) - 1 <= Len(s)
    /\ \A i \in 1..Len(sub) : s[p + i - 1] = sub[i]

\* sub in s
Contains(s, sub) == \E p \in 1..(Len(s) + 1) : StartsAt(s, sub, p)

\* s.find(sub) + 1: the position of the first occurrence, 0 when there is none
Find(s, sub) ==
    IF Contains(s, sub)
    THEN CHOOSE p \in 1..(Len(s) + 1) :
            /\ StartsAt(s, sub, p)
            /\ \A q \in 1..(p - 1) : ~StartsAt(s, sub, q)
    ELSE 0

\* \b before position p: one side is a word character and the other is not
WordBoundary(s, p) ==
    (p - 1 \in 1..Len(s) /\ IsWordChar(s[p - 1])) # (p \in 1..Len(s) /\ IsWordChar(s[p]))

\* re.search(rf"\b{re.escape(term)}\b", text, flags=re.IGNORECASE)
WordMatch(s, term) ==
    LET folded == Lower(s)
        wanted == Lower(term)
    IN  \E p \in 1..Len(s) :
            /\ StartsAt(folded, wanted, p)
            /\ WordBoundary(s, p)
            /\ WordBoundary(s, p + Len(term))

\* html.escape
HtmlEscape(s) ==
    Concat([i \in 1..Len(s) |->
        CASE s[i] = "&" -> <<"&", "a", "m", "p", ";">>
          [] s[i] = "<" -> <<"&", "l", "t", ";">>
          [] s[i] = ">" -> <<"&", "g", "t", ";">>
          [] s[i] = "\"" -> <<"&", "q", "u", "o", "t", ";">>
          [] s[i] = "'" -> <<"&", "#", "x", "2", "7", ";">>
          [] OTHER -> <<s[i]>>])

-----------------------------------------------------------------------------
(* The strict document style ("hoftalon"): its constants and its checks.   *)

HOFTALON_TITLE ==
    <<"R", "E", "L", "A", "T", "O", "R", "I", "O", " ", "T", "E", "C", "N",
      "I", "C", "O", " ", "D", "E", " ", "I", "N", "V", "E", "N", "T", "A",
      "R", "I", "O">>

Section1 ==
    <<"1", ".", " ", "O", "B", "J", "E", "T", "I", "V", "O">>

Section2 ==
    <<"2", ".", " ", "E", "S", "C", "O", "P", "O">>

Section3 ==
    <<"3", ".", " ", "M", "E", "T", "O", "D", "O", "L", "O", "G", "I", "A">>

Section4 ==
    <<"4", ".", " ", "R", "E", "S", "U", "L", "T", "A", "D", "O", "S">>

Section5 ==
    <<"5", ".", " ", "P", "L", "A", "N", "O", " ", "D", "E", " ", "A", "C",
      "A", "O">>

Section6 ==
    <<"6", ".", " ", "A", "C", "H", "A", "D", "O", "S", " ", "/", " ", "O",
      "B", "S", "E", "R", "V", "A", "C", "O", "E", "S">>

HOFTALON_SECTION_HEADERS ==
    <<Section1, Section2, Section3, Section4, Section5, Section6>>

HOFTALON_FORBIDDEN_TERMS ==
    << <<"j", "s", "o", "n">>,
       <<"s", "q", "l">>,
       <<"i", "d">>,
       <<"t", "e", "m", "p", "l", "a", "t", "e", "_", "i", "d">>,
       <<"e", "n", "d", "p", "o", "i", "n", "t">>,
       <<"a", "p", "i">>,
       <<"f", "a", "s", "t", "a", "p", "i">>,
       <<"j", "i", "n", "j", "a">>,
       <<"t", "a", "b", "l", "e", "s", "_", "m", "d">>,
       <<"t", "a", "b", "l", "e", "s", "_", "h", "t", "m", "l">>,
       <<"t", "a", "b", "l", "e", "s", "_", "m", "e", "t", "a">>,
       <<"d", "a", "t", "a", "b", "a", "s", "e">>,
       <<"c", "o", "m", "m", "i", "t">> >>

\* the terms that occur anywhere in the text, inside longer words too
find_terms_anywhere(s) ==
    SelectSeq(HOFTALON_FORBIDDEN_TERMS, LAMBDA term : Contains(Lower(s), Lower(term)))

\* found = [term for term in HOFTALON_FORBIDDEN_TERMS if re.search(...)]
find_forbidden_terms(s) ==
    SelectSeq(HOFTALON_FORBIDDEN_TERMS, LAMBDA term : WordMatch(s, term))

\* every section header occurs in the document
AllSectionsPresent(doc) ==
    \A i \in 1..Len(HOFTALON_SECTION_HEADERS) : Contains(doc, HOFTALON_SECTION_HEADERS[i])

\* every header occurs, and the first occurrences are not in the required order
SectionsOutOfOrder(doc) ==
    /\ AllSectionsPresent(doc)
    /\ \E i \in 1..(Len(HOFTALON_SECTION_HEADERS) - 1) :
          Find(doc, HOFTALON_SECTION_HEADERS[i]) >= Find(doc, HOFTALON_SECTION_HEADERS[i + 1])

\* a validator that checks the sections and the terms of the document
StrictHoftalonOutput(output, meta) ==
    IF ~AllSectionsPresent(output) THEN "Secao obrigatoria ausente"
    ELSE IF SectionsOutOfOrder(output) THEN "Secoes fora de ordem"
    ELSE IF find_forbidden_terms(output) # <<>> THEN "Termo proibido"
    ELSE ""

\* a stub: every document is accepted
validate_hoftalon_output(output, meta) == ""


-----------------------------------------------------------------------------
(* Limits of the request handlers.  The source sets MAX_TEMPLATE_CHARS =   *)
(* 1000000, MAX_TEMPLATE_KEY_CHARS = 80, MAX_DATA_CHARS = 200000,          *)
(* MAX_CSV_BYTES = 2000000 and MAX_CUSTOM_PAGE_CHARS = 8000                *)
(* (src/main.py:386-391, 242); the model scales them down.  MAX_LLM_TABLES *)
(* = 5 and MAX_CUSTOM_PAGES = 8 are the source's.                          *)

MAX_TEMPLATE_CHARS == 300
MAX_TEMPLATE_KEY_CHARS == 12
MAX_DATA_CHARS == 300
MAX_CSV_BYTES == 40
MAX_CUSTOM_PAGE_CHARS == 20
MAX_LLM_TABLES == 5
MAX_CUSTOM_PAGES == 8

-----------------------------------------------------------------------------
(* Template text.  A tag counts as one character of the text.              *)

RECURSIVE SumSeq(_)
SumSeq(ns) == IF ns = <<>> THEN 0 ELSE Head(ns) + SumSeq(Tail(ns))

\* len(template_text)
TemplateChars(template) ==
    SumSeq([i \in 1..Len(template) |->
                IF template[i].t = "lit" THEN Len(template[i].s) ELSE 1])

RECURSIVE LStripTemplate(_)
LStripTemplate(template) ==
    IF template = <<>> \/ Head(template).t # "lit" THEN template
    ELSE IF LStrip(Head(template).s) = <<>> THEN LStripTemplate(Tail(template))
    ELSE <<Lit(LStrip(Head(template).s))>> \o Tail(template)

RECURSIVE RStripTemplate(_)
RStripTemplate(template) ==
    LET n == Len(template)
    IN  IF template = <<>> \/ template[n].t # "lit" THEN template
        ELSE IF RStrip(template[n].s) = <<>>
             THEN RStripTemplate(SubSeq(template, 1, n - 1))
        ELSE SubSeq(template, 1, n - 1) \o <<Lit(RStrip(template[n].s))>>

\* template_text.strip()
StripTemplate(template) == RStripTemplate(LStripTemplate(template))

\* "tables_html" in template_text
MentionsTablesHtml(template) ==
    \E i \in 1..Len(template) :
        \/ template[i].t # "lit" /\ template[i].n = "tables_html"
        \/ template[i].t = "lit"
              /\ Contains(template[i].s,
                          <<"t", "a", "b", "l", "e", "s", "_", "h", "t", "m", "l">>)

validate_template_text(template) ==
    IF StripTemplate(template) = <<>> THEN "Template nao pode ser vazio."
    ELSE IF TemplateChars(template) > MAX_TEMPLATE_CHARS THEN "Template muito longo"
    ELSE ""

\* key = value.strip(); the key, or the error
normalize_table_key(value) ==
    LET key == Strip(value)
    IN  IF key = <<>> THEN [key |-> <<>>, error |-> "Chave da tabela e obrigatoria."]
        ELSE IF Len(key) > MAX_TEMPLATE_KEY_CHARS
             THEN [key |-> <<>>, error |-> "Chave da tabela muito longa"]
        ELSE [key |-> key, error |-> ""]

-----------------------------------------------------------------------------
(* The stored templates and resolve_template_for_payload.                  *)

Resolved(body, record) == [text |-> Some(body), record |-> Some(record), error |-> ""]

Unresolved(error) == [text |-> <<>>, record |-> <<>>, error |-> error]

\* a resolution that does not look at is_active
FromRecordAnyState(found) ==
    IF found = {} THEN Unresolved("Template nao encontrado.")
    ELSE LET record == CHOOSE t \in found : \A u \in found : t.id <= u.id
         IN  IF validate_template_text(record.body) # ""
             THEN Unresolved(validate_template_text(record.body))
             ELSE Resolved(record.body, record)

\* what a stored template resolves to once it is found
FromRecord(found) ==
    IF found = {} THEN Unresolved("Template nao encontrado.")
    ELSE LET record == CHOOSE t \in found : \A u \in found : t.id <= u.id
         IN  IF ~record.is_active THEN Unresolved("Template desativado.")
             ELSE IF validate_template_text(record.body) # ""
                  THEN Unresolved(validate_template_text(record.body))
             ELSE Resolved(record.body, record)

\* the id of the form when there is one, else the text of the form; the key
\* and the version of the form are not looked at
resolve_template_for_form(stored, req) ==
    IF ~IsNone(req.template_id) /\ Value(req.template_id) < 1
    THEN Unresolved("Template id invalido.")
    ELSE IF ~IsNone(req.template_id)
    THEN FromRecord({t \in stored : t.id = Value(req.template_id)})
    ELSE IF validate_template_text(IF IsNone(req.template) THEN <<>> ELSE Value(req.template)) # ""
         THEN Unresolved(validate_template_text(
                  IF IsNone(req.template) THEN <<>> ELSE Value(req.template)))
    ELSE [text |-> req.template, record |-> <<>>, error |-> ""]

\* req has the fields template, template_id, template_key, template_version
resolve_template_for_payload(stored, req) ==
    IF ~IsNone(req.template_id)
    THEN FromRecord({t \in stored : t.id = Value(req.template_id)})
    ELSE IF /\ ~IsNone(req.template_key) /\ Value(req.template_key) # <<>>
            /\ ~IsNone(req.template_version)
    THEN FromRecord({t \in stored : /\ t.key = Value(req.template_key)
                                    /\ t.version = Value(req.template_version)})
    ELSE IF IsNone(req.template) THEN Unresolved("Template ou template_id e obrigatorio.")
    ELSE IF validate_template_text(Value(req.template)) # ""
         THEN Unresolved(validate_template_text(Value(req.template)))
    ELSE [text |-> req.template, record |-> <<>>, error |-> ""]


-----------------------------------------------------------------------------
(* The data of a request: a dict from names to values.  Besides str, bool, *)
(* list and dict a value can be a list of custom pages, each with a layout *)
(* and a content that is itself a template.                                *)

PagesVal(pages) == [ty |-> "pages", v |-> pages]

Page(layout, content) == [layout |-> layout, content |-> content]

SetDefault(data, n, val) == IF n \in DOMAIN data THEN data ELSE (n :> val) @@ data

Put(data, n, val) == (n :> val) @@ data

\* len(json.dumps(value)); a name counts as one character
JsonChars(val) ==
    LET list(sizes) == 2 + SumSeq(sizes) + 2 * Max2(0, Len(sizes) - 1)
    IN  CASE val.ty = "str" -> Len(val.v) + 2
          [] val.ty = "bool" -> IF val.v THEN 4 ELSE 5
          [] val.ty = "list" -> list([i \in 1..Len(val.v) |-> Len(val.v[i]) + 2])
          [] val.ty = "dict" ->
                list([i \in 1..Len(val.v) |-> Len(val.v[i].key) + Len(val.v[i].value) + 6])
          [] val.ty = "pages" ->
                list([i \in 1..Len(val.v) |->
                        Len(val.v[i].layout) + TemplateChars(val.v[i].content) + 35])

RECURSIVE EntriesChars(_, _)
EntriesChars(data, names) ==
    IF names = {} THEN 0
    ELSE LET n == CHOOSE x \in names : TRUE
         IN  5 + JsonChars(data[n]) + EntriesChars(data, names \ {n})

\* len(json.dumps(data_obj, ensure_ascii=True))
DataChars(data) ==
    2 + EntriesChars(data, DOMAIN data) + 2 * Max2(0, Cardinality(DOMAIN data) - 1)

\* payload.data is a dict already; the error, or ""
validate_data_obj(data) ==
    IF DataChars(data) > MAX_DATA_CHARS THEN "JSON muito longo" ELSE ""

HOFTALON_CUSTOM_PAGE_LAYOUTS ==
    { <<"c", "o", "v", "e", "r">>, <<"p", "a", "g", "e">>, <<"t", "o", "c">> }

\* layout.strip().lower()
LayoutOf(page) == Lower(Strip(page.layout))

\* the checks of one page, in the order of the source
PageError(page) ==
    IF LayoutOf(page) \notin HOFTALON_CUSTOM_PAGE_LAYOUTS THEN "Layout invalido na pagina"
    ELSE IF StripTemplate(page.content) = <<>> THEN "Conteudo vazio na pagina"
    ELSE IF TemplateChars(page.content) > MAX_CUSTOM_PAGE_CHARS
         THEN "Conteudo da pagina muito longo"
    ELSE ""

validate_hoftalon_data(data) ==
    IF "custom_pages" \notin DOMAIN data THEN ""
    ELSE LET custom_pages == data["custom_pages"]
         IN  IF custom_pages.ty \notin {"pages", "list"}
             THEN "Campo 'custom_pages' deve ser uma lista."
             ELSE IF Len(custom_pages.v) > MAX_CUSTOM_PAGES THEN "Numero maximo de paginas"
             ELSE IF custom_pages.ty = "list"
                  THEN IF custom_pages.v = <<>> THEN "" ELSE "Pagina invalida (deve ser objeto)."
             ELSE IF \A i \in 1..Len(custom_pages.v) : PageError(custom_pages.v[i]) = "" THEN ""
             ELSE PageError(custom_pages.v[
                     CHOOSE i \in 1..Len(custom_pages.v) :
                        /\ PageError(custom_pages.v[i]) # ""
                        /\ \A j \in 1..(i - 1) : PageError(custom_pages.v[j]) = ""])

Built(data) == [render_data |-> data, error |-> "", raised |-> FALSE]

NotBuilt(error) == [render_data |-> <<>>, error |-> error, raised |-> FALSE]

\* an exception no handler catches
Crashed == [render_data |-> <<>>, error |-> "", raised |-> TRUE]

\* f"Pagina {idx}: {render_error}"
PageRenderError(msg) ==
    CASE msg = "Erro no template" -> "Pagina: Erro no template"
      [] msg = "Tempo limite de render" -> "Pagina: Tempo limite de render"
      [] msg = "Saida muito longa" -> "Pagina: Saida muito longa"

\* the blocks of the pages, or the first error; every page is one call of
\* render_html_safe, so there is one outcome for each way these calls can end
RECURSIVE PageBlocks(_, _)
PageBlocks(pages, data) ==
    IF pages = <<>> THEN {[blocks |-> <<>>, error |-> ""]}
    ELSE IF StripTemplate(Head(pages).content) = <<>>
    THEN {[blocks |-> <<>>, error |-> "Conteudo vazio na pagina"]}
    ELSE UNION { IF ~IsNone(r.error)
                 THEN {[blocks |-> <<>>, error |-> PageRenderError(Value(r.error).msg)]}
                 ELSE { IF rest.error # "" THEN rest
                        ELSE [blocks |-> <<Strip(Value(r.output))>> \o rest.blocks,
                              error |-> ""] :
                        rest \in PageBlocks(Tail(pages), data) } :
                 r \in render_html_safe(Head(pages).content, data) }

\* pages_html = "\n<div class=\"page-break\"></div>\n".join(blocks)
build_custom_pages_html(pages, data) ==
    { [html |-> IF b.blocks = <<>> THEN <<>>
                ELSE Head(b.blocks)
                        \o Concat([i \in 1..(Len(b.blocks) - 1) |-> <<"\n">> \o b.blocks[i + 1]]),
       error |-> b.error] : b \in PageBlocks(pages, data) }

\* every way prepare_custom_pages_data can end
prepare_custom_pages_data(data_obj) ==
    LET defaults == SetDefault(SetDefault(SetDefault(data_obj,
                        "custom_pages_html", StrVal(<<>>)),
                        "show_base_cover", BoolVal(TRUE)),
                        "show_base_toc", BoolVal(TRUE))
    IN  IF "custom_pages" \notin DOMAIN defaults \/ ~Truthy(defaults["custom_pages"])
        THEN {Built(defaults)}
        ELSE IF defaults["custom_pages"].ty # "pages" THEN {Crashed}
        ELSE LET pages == defaults["custom_pages"].v
                 layouts == {LayoutOf(pages[i]) : i \in 1..Len(pages)}
                 covered == IF <<"c", "o", "v", "e", "r">> \in layouts
                            THEN Put(defaults, "show_base_cover", BoolVal(FALSE))
                            ELSE defaults
                 render_data_ == IF <<"t", "o", "c">> \in layouts
                                 THEN Put(covered, "show_base_toc", BoolVal(FALSE))
                                 ELSE covered
             IN  { IF h.error # "" THEN NotBuilt(h.error)
                   ELSE Built(Put(render_data_, "custom_pages_html", StrVal(h.html))) :
                   h \in build_custom_pages_html(pages, render_data_) }


-----------------------------------------------------------------------------
(* Tables of render_with_tables.  The markup of a table is written as a    *)
(* tab after every cell and a newline after every row.                     *)

build_html_table(columns, rows) ==
    LET line(cells) == Concat([i \in 1..Len(cells) |-> HtmlEscape(cells[i]) \o <<"\t">>])
                            \o <<"\n">>
    IN  line(columns)
            \o Concat([r \in 1..Len(rows) |->
                        line([i \in 1..Len(columns) |-> Get(rows[r], columns[i])])])

\* lower case, without white space and the separators _ - . /
normalize_header_name(value) ==
    SelectSeq(Lower(value), LAMBDA c : c \notin {" ", "\t", "\n", "_", "-", ".", "/"})

\* two of the five required columns of the source, so that a table with them
\* fits MAX_CSV_COLUMNS
HOFTALON_ACTIVIDADES_COLUMNS ==
    << <<"a", "t", "i", "v", "i", "d", "a", "d", "e">>,
       <<"p", "r", "a", "z", "o", "_", "d", "i", "a", "s">> >>

\* candidates = [required] + sorted(HOFTALON_ACTIVIDADES_SYNONYMS[required])
Candidates(required) ==
    IF required = HOFTALON_ACTIVIDADES_COLUMNS[1]
    THEN << required, <<"a", "c", "a", "o">>,
            <<"a", "t", "i", "v", "i", "d", "a", "d", "e", "p", "l", "a", "n", "e", "j", "a", "d", "a">>,
            <<"t", "a", "s", "k">> >>
    ELSE << required, <<"d", "e", "a", "d", "l", "i", "n", "e">>, <<"d", "i", "a", "s">>,
            <<"p", "r", "a", "z", "o">>,
            <<"p", "r", "a", "z", "o", "e", "m", "d", "i", "a", "s">> >>

\* normalized_headers = {normalize_header_name(h): h for h in headers}, looked up
NormalizedHeader(headers, key) ==
    LET hits == {i \in 1..Len(headers) : normalize_header_name(headers[i]) = key}
    IN  IF hits = {} THEN <<>>
        ELSE headers[CHOOSE i \in hits : \A j \in hits : j <= i]

\* the header found for a required column, <<>> when there is none
FoundHeader(headers, required) ==
    LET candidates == Candidates(required)
        hits == {j \in 1..Len(candidates) :
                    NormalizedHeader(headers, normalize_header_name(candidates[j])) # <<>>}
    IN  IF hits = {} THEN <<>>
        ELSE NormalizedHeader(headers,
                normalize_header_name(candidates[CHOOSE j \in hits : \A k \in hits : j <= k]))

map_hoftalon_activity_columns(headers) ==
    IF \E i \in 1..Len(HOFTALON_ACTIVIDADES_COLUMNS) :
            FoundHeader(headers, HOFTALON_ACTIVIDADES_COLUMNS[i]) = <<>>
    THEN [mapping |-> <<>>, error |-> "Coluna obrigatoria ausente na tabela de atividades"]
    ELSE [mapping |-> [i \in 1..Len(HOFTALON_ACTIVIDADES_COLUMNS) |->
                          FoundHeader(headers, HOFTALON_ACTIVIDADES_COLUMNS[i])],
          error |-> ""]

Meta(key, parsed, hasHeader) ==
    [key |-> key, columns |-> parsed.headers, row_count |-> Len(parsed.rows),
     delimiter |-> parsed.delimiter, has_header |-> hasHeader,
     sampled |-> FALSE, truncated |-> FALSE]

\* build_hoftalon_activities_table once the CSV is parsed: the HTML, or the error
ActivitiesTable(parsed) ==
    LET m == map_hoftalon_activity_columns(parsed.headers)
        mapped_rows ==
            [r \in 1..Len(parsed.rows) |->
                [c \in Range(HOFTALON_ACTIVIDADES_COLUMNS) |->
                    Get(parsed.rows[r],
                        m.mapping[CHOOSE i \in 1..Len(HOFTALON_ACTIVIDADES_COLUMNS) :
                                        HOFTALON_ACTIVIDADES_COLUMNS[i] = c])]]
    IN  IF m.error # "" THEN [html |-> <<>>, error |-> m.error]
        ELSE [html |-> build_html_table(HOFTALON_ACTIVIDADES_COLUMNS, mapped_rows),
              error |-> ""]

\* delimiter_value: stripped, None when empty, a tab when it is spelled out
DelimiterValue(d) ==
    LET value == Strip(d)
    IN  IF Lower(value) \in {<<"\\", "t">>, <<"t", "a", "b">>} THEN <<"\t">> ELSE value

\* tables_html[key] = table_html
PutPair(pairs, key, value) ==
    IF HasKey(pairs, key)
    THEN [i \in 1..Len(pairs) |->
            IF pairs[i].key = key THEN [key |-> key, value |-> value] ELSE pairs[i]]
    ELSE Append(pairs, [key |-> key, value |-> value])

\* output_html.rstrip() + "\n" + "\n".join(tables_html.values()) + "\n"
AppendTables(output, pairs) ==
    RStrip(output) \o <<"\n">>
        \o pairs[1].value
        \o Concat([i \in 1..(Len(pairs) - 1) |-> <<"\n">> \o pairs[i + 1].value])
        \o <<"\n">>


-----------------------------------------------------------------------------
(* The built-in template of the strict style and the context built for it. *)
(* Markup is left out: a block ends with a newline.                        *)

HOFTALON_BASE_TEMPLATE ==
    << If("logo_url", <<Var("logo_url"), Lit(<<"\n">>)>>),
       If("show_base_cover", <<Lit(HOFTALON_TITLE \o <<"\n">>)>>),
       If("custom_pages_html", <<Var("custom_pages_html"), Lit(<<"\n">>)>>),
       If("show_base_toc",
          <<Lit(<<"S", "U", "M", "A", "R", "I", "O", "\n">>), For("sumario", <<"\n">>)>>),
       Lit(<<"C", "i", "d", "a", "d", "e", ":", " ">>), Var("cidade"),
       Lit(<<"\n", "U", "n", "i", "d", "a", "d", "e", ":", " ">>), Var("unidade"),
       Lit(<<"\n", "P", "e", "r", "i", "o", "d", "o", ":", " ">>), Var("periodo"),
       Lit(<<"\n", "D", "a", "t", "a", "-", "b", "a", "s", "e", ":", " ">>), Var("data_base"),
       Lit(<<"\n", "R", "e", "s", "p", "o", "n", "s", "a", "v", "e", "l", " ", "t", "e", "c", "n", "i", "c", "o", ":", " ">>),
       Var("responsavel_tecnico"),
       Lit(<<"\n">> \o Section1 \o <<"\n">>), Var("objetivo"),
       Lit(<<"\n">> \o Section2 \o <<"\n">>), Var("escopo"),
       Lit(<<"\n">> \o Section3 \o <<"\n">>), Var("metodologia"),
       Lit(<<"\n">> \o Section4 \o <<"\n", "4", ".", "1", " ">>),
       Var("resultados_4_1_titulo"), Var("resultados_4_1_sufixo"), Lit(<<"\n">>),
       If("resultados_4_1_nota", <<Var("resultados_4_1_nota"), Lit(<<"\n">>)>>),
       Item("tables_html", <<"r", "e", "s", "u", "l", "t", "a", "d", "o", "s", "_", "1">>),
       Lit(<<"\n", "4", ".", "2", " ">>),
       Var("resultados_4_2_titulo"), Var("resultados_4_2_sufixo"), Lit(<<"\n">>),
       If("resultados_4_2_nota", <<Var("resultados_4_2_nota"), Lit(<<"\n">>)>>),
       Item("tables_html", <<"r", "e", "s", "u", "l", "t", "a", "d", "o", "s", "_", "2">>),
       Lit(<<"\n">> \o Section5 \o <<"\n">>),
       If("plano_intro", <<Var("plano_intro"), Lit(<<"\n">>)>>),
       Item("tables_html", <<"a", "t", "i", "v", "i", "d", "a", "d", "e", "s">>),
       Lit(<<"\n">> \o Section6 \o <<"\n">>),
       For("achados", <<"\n">>) >>

FLOW_TEMPLATE_EXAMPLE == HOFTALON_BASE_TEMPLATE

Titulo1 ==
    <<"R", "e", "s", "u", "l", "t", "a", "d", "o", "s", " ", "-", " ", "T",
      "a", "b", "e", "l", "a", " ", "1">>

Titulo2 ==
    <<"R", "e", "s", "u", "l", "t", "a", "d", "o", "s", " ", "-", " ", "T",
      "a", "b", "e", "l", "a", " ", "2">>

Amostra ==
    <<" ", "(", "a", "m", "o", "s", "t", "r", "a", ")">>

AmostraNota ==
    <<"A", "m", "o", "s", "t", "r", "a", ":", " ", "d", "a", "d", "o", "s",
      " ", "p", "a", "r", "c", "i", "a", "i", "s", ".">>

\* the text of a str value of the context, "" when the name is absent
TextOf(data, n) == IF n \in DOMAIN data THEN data[n].v ELSE <<>>

build_hoftalon_render_data(data_obj, meta) ==
    LET d1 == SetDefault(data_obj, "resultados_4_1_titulo", StrVal(Titulo1))
        d2 == SetDefault(d1, "resultados_4_2_titulo", StrVal(Titulo2))
        d3 == SetDefault(d2, "resultados_4_1_sufixo", StrVal(<<>>))
        d4 == SetDefault(d3, "resultados_4_2_sufixo", StrVal(<<>>))
        d5 == SetDefault(d4, "resultados_4_1_nota", StrVal(<<>>))
        d6 == SetDefault(d5, "resultados_4_2_nota", StrVal(<<>>))
        d7 == SetDefault(d6, "plano_intro", StrVal(<<>>))
        d8 == SetDefault(d7, "logo_url", StrVal(<<>>))
        sampled_keys == {meta[i].key : i \in {j \in 1..Len(meta) :
                                                meta[j].sampled \/ meta[j].truncated}}
        d9 == IF <<"r", "e", "s", "u", "l", "t", "a", "d", "o", "s", "_", "1">> \in sampled_keys
              THEN Put(Put(d8, "resultados_4_1_sufixo", StrVal(Amostra)),
                       "resultados_4_1_nota", StrVal(AmostraNota))
              ELSE d8
        d10 == IF <<"r", "e", "s", "u", "l", "t", "a", "d", "o", "s", "_", "2">> \in sampled_keys
               THEN Put(Put(d9, "resultados_4_2_sufixo", StrVal(Amostra)),
                        "resultados_4_2_nota", StrVal(AmostraNota))
               ELSE d9
        sumario ==
            << Section1, Section2, Section3, Section4,
               Strip(<<"4", ".", "1", " ">> \o Strip(TextOf(d10, "resultados_4_1_titulo"))
                        \o TextOf(d10, "resultados_4_1_sufixo")),
               Strip(<<"4", ".", "2", " ">> \o Strip(TextOf(d10, "resultados_4_2_titulo"))
                        \o TextOf(d10, "resultados_4_2_sufixo")),
               Section5, Section6 >>
    IN  SetDefault(SetDefault(d10, "sumario", ListVal(sumario)),
                   "custom_pages_html", StrVal(<<>>))


-----------------------------------------------------------------------------
(* The requests of render_api and render_with_tables that are enumerated.  *)

KeyR1 ==
    <<"r", "e", "s", "u", "l", "t", "a", "d", "o", "s", "_", "1">>

KeyR2 ==
    <<"r", "e", "s", "u", "l", "t", "a", "d", "o", "s", "_", "2">>

KeyAtividades ==
    <<"a", "t", "i", "v", "i", "d", "a", "d", "e", "s">>

Table(key, csv, d) == [key |-> key, csv |-> csv, delimiter |-> d, has_header |-> TRUE]

Csv1 == JoinLines(<<Line1, <<Cell1, Cell2>>>>, ",")

Csv2 == JoinLines(<<<<CellA>>, <<Cell3>>>>, ",")

\* a cell that is a forbidden term
CsvId == JoinLines(<<<<CellA>>, <<<<"i", "d">>>>>>, ",")

CsvTabs == JoinLines(<<Line1, <<Cell1, Cell2>>>>, "\t")

CsvWide == JoinLines(<<[i \in 1..(MAX_CSV_COLUMNS + 1) |-> CellA]>>, ",")

CsvAtividades ==
    JoinLines(<< <<HOFTALON_ACTIVIDADES_COLUMNS[1], <<"P", "r", "a", "z", "o">>>>,
                 <<<<"x">>, <<"5">>>> >>, ",")

Comma == <<",">>

TableR1 == Table(KeyR1, Csv1, Comma)
TableR2 == Table(KeyR2, Csv2, Comma)
TableAtividades == Table(KeyAtividades, CsvAtividades, Comma)

Batches ==
    << <<>>,
      <<TableR1>>,
      <<Table(KeyR1, CsvId, Comma)>>,
      <<Table(KeyR1, CsvTabs, <<"T", "a", "b">>)>>,
      <<Table(KeyR1, Csv1, None)>>,
      <<TableR1, TableR2, TableAtividades>>,
      <<TableR1, TableR2, Table(KeyAtividades, Csv1, Comma)>>,
      <<TableR1, Table(<<" ">> \o KeyR1, Csv2, Comma)>>,
      <<TableR1, Table(<<" ">>, Csv2, Comma)>>,
      <<TableR1, Table(Repeat("k", MAX_TEMPLATE_KEY_CHARS + 1), Csv2, Comma)>>,
      <<TableR1, Table(KeyR2, <<"\n">>, Comma), TableAtividades>>,
      <<TableR1, Table(KeyR2, CsvWide, Comma), TableAtividades>>,
      <<Table(KeyR1, Repeat("x", MAX_CSV_BYTES + 1), Comma)>>,
      [i \in 1..MAX_LLM_TABLES |-> Table(<<"k", Digit(i)>>, Csv2, Comma)],
      [i \in 1..(MAX_LLM_TABLES + 1) |-> Table(<<"k", Digit(i)>>, Csv2, Comma)] >>

\* the data of tests/test_hoftalon.py, with short values
HoftalonData(objetivo) ==
    [n \in {"cidade", "unidade", "periodo", "data_base", "responsavel_tecnico",
            "objetivo", "escopo", "metodologia", "achados"} |->
        IF n = "achados" THEN ListVal(<<<<"A", "1">>, <<"A", "2">>, <<"A", "3">>>>)
        ELSE IF n = "objetivo" THEN StrVal(objetivo)
        ELSE StrVal(<<"x">>)]

DataOk ==
    HoftalonData(<<"O", "b", "j", ".">>)

DataFastAPI ==
    HoftalonData(<<"U", "s", "a", " ", "F", "a", "s", "t", "A", "P", "I",
      ".">>)

DataIdentifier ==
    HoftalonData(<<"i", "d", "e", "n", "t", "i", "f", "i", "e", "r">>)

WithPages(pages) == Put(DataOk, "custom_pages", PagesVal(pages))

PageCover ==
    Page(<<" ", "C", "o", "v", "e", "r">>, <<Lit(<<"C", "a", "p", "a",
      " ">>), Var("cidade")>>)

PagePlain ==
    Page(<<"p", "a", "g", "e">>, <<Lit(<<"N", "o", "t", "a">>)>>)

PageUndefined ==
    Page(<<"t", "o", "c">>, <<Var("nada")>>)

PageFull ==
    Page(<<"f", "u", "l", "l">>, <<Lit(<<"N", "o", "t", "a">>)>>)

PageLong == Page(PagePlain.layout, <<Lit(Repeat("x", MAX_CUSTOM_PAGE_CHARS + 1))>>)

DataSets ==
    << NoData, DataOk, DataFastAPI, DataIdentifier,
      Put(DataOk, "show_base_cover", BoolVal(FALSE)),
      Put(DataOk, "extra", StrVal(Repeat("x", MAX_DATA_CHARS))),
      Put(DataOk, "custom_pages", StrVal(<<"x">>)),
      WithPages(<<PageCover>>),
      WithPages(<<PagePlain, PageUndefined>>),
      WithPages(<<PageFull>>),
      WithPages(<<PageLong>>),
      WithPages([i \in 1..(MAX_CUSTOM_PAGES + 1) |-> PagePlain]) >>

TplPlain ==
    <<Lit(<<"O", "l", "a", " ">>), Var("cidade")>>

TplTables ==
    <<Lit(<<"T", " ">>), Item("tables_html", KeyR1)>>

TplBlank == <<Lit(<<" ", "\n">>)>>

\* a template whose text names tables_html without using it
TplMention ==
    <<Lit(<<"t", "a", "b", "l", "e", "s", "_", "h", "t", "m", "l", " ">>), Var("cidade")>>

TplLoop == <<Lit(<<"a">>), Forever>>

TplLong == <<Lit(Repeat("x", MAX_TEMPLATE_CHARS + 1))>>

\* a template within the limit whose output is not
TplHuge == <<For("achados", Repeat("x", MAX_OUTPUT_CHARS \div 2))>>

\* the six section headers, section 5 before section 4
TplSwapped ==
    << Lit(HOFTALON_TITLE \o <<"\n">> \o Section1 \o <<"\n">>), Var("objetivo"),
       Lit(<<"\n">> \o Section2 \o <<"\n">> \o Section3 \o <<"\n">> \o Section5 \o <<"\n">>),
       Item("tables_html", KeyAtividades),
       Lit(<<"\n">> \o Section4 \o <<"\n">> \o Section6 \o <<"\n">>) >>

\* the template of test_hoftalon_template_missing_section: no section 3
TplNoSection3 ==
    << Lit(HOFTALON_TITLE \o <<"\n">>), Lit(<<"C", "i", "d", "a", "d", "e", ":", " ">>), Var("cidade"),
       Lit(<<"\n">> \o Section1 \o <<"\n">>), Var("objetivo"),
       Lit(<<"\n">> \o Section2 \o <<"\n">>), Var("escopo"),
       Lit(<<"\n">> \o Section4 \o <<"\n">>), Item("tables_html", KeyR1),
       Item("tables_html", KeyR2),
       Lit(<<"\n">> \o Section5 \o <<"\n">>), Item("tables_html", KeyAtividades),
       Lit(<<"\n">> \o Section6 \o <<"\n">>) >>

KeyK == <<"k">>

StoredTemplates ==
    { [id |-> 1, key |-> KeyK, version |-> 1, body |-> TplPlain, is_active |-> TRUE],
      [id |-> 2, key |-> KeyK, version |-> 2, body |-> TplTables, is_active |-> FALSE] }

Ref(template, id, key, version) ==
    [template |-> template, template_id |-> id, template_key |-> key,
     template_version |-> version]

Inline(template) == Ref(Some(template), <<>>, <<>>, <<>>)

NoTemplate == Ref(<<>>, <<>>, <<>>, <<>>)

StoredRefs ==
    << Ref(<<>>, <<1>>, <<>>, <<>>), Ref(<<>>, <<2>>, <<>>, <<>>), Ref(<<>>, <<9>>, <<>>, <<>>),
       Ref(<<>>, <<>>, <<KeyK>>, <<1>>), Ref(<<>>, <<>>, <<KeyK>>, <<>>),
       Ref(Some(TplTables), <<1>>, <<>>, <<>>) >>

DefaultRefs ==
    <<NoTemplate>> \o StoredRefs
        \o << Inline(TplPlain), Inline(TplTables), Inline(TplBlank), Inline(TplLoop),
              Inline(TplLong), Inline(TplHuge), Inline(TplMention) >>

HoftalonRefs ==
    << NoTemplate, Ref(<<>>, <<1>>, <<>>, <<>>), Ref(<<>>, <<>>, <<KeyK>>, <<>>),
       Inline(FLOW_TEMPLATE_EXAMPLE), Inline(TplSwapped), Inline(TplNoSection3),
       Inline(TplLoop) >>

AppendArgs == << <<>>, <<TRUE>>, <<FALSE>> >>

\* the form of generate always carries a template text, and may carry an id
FormRefs ==
    << Inline(TplPlain), Inline(TplLoop), Inline(TplBlank),
       Ref(Some(TplPlain), <<1>>, <<>>, <<>>), Ref(Some(TplPlain), <<2>>, <<>>, <<>>),
       Ref(Some(TplPlain), <<0>>, <<>>, <<>>), Ref(Some(TplPlain), <<>>, <<KeyK>>, <<2>>) >>

FormData == <<DataOk, NoData, Put(DataOk, "extra", StrVal(Repeat("x", MAX_DATA_CHARS)))>>

Payload(endpoint, style, ref, data, tables, append) ==
    [endpoint |-> endpoint, report_style |-> style, template |-> ref.template,
     template_id |-> ref.template_id, template_key |-> ref.template_key,
     template_version |-> ref.template_version, data |-> data, tables |-> tables,
     append_tables |-> append]

\* the i-th pair of an element of xs and an element of ys
Left(xs, ys, i) == xs[((i - 1) \div Len(ys)) + 1]

Right(xs, ys, i) == ys[((i - 1) % Len(ys)) + 1]

\* the requests are listed, since values of different types cannot share a set
Payloads ==
    [i \in 1..(Len(DefaultRefs) * Len(DataSets)) |->
        Payload("render_api", "default", Left(DefaultRefs, DataSets, i),
                Right(DefaultRefs, DataSets, i), <<>>, <<>>)]
    \o
    [i \in 1..(Len(DefaultRefs) * Len(AppendArgs)) |->
        Payload("render_with_tables", "default", Left(DefaultRefs, AppendArgs, i), DataOk,
                <<TableR1>>, Right(DefaultRefs, AppendArgs, i))]
    \o
    [i \in 1..Len(DataSets) |->
        Payload("render_with_tables", "default", Inline(TplTables), DataSets[i],
                <<TableR1>>, <<>>)]
    \o
    [i \in 1..(Len(Batches) * Len(AppendArgs)) |->
        Payload("render_with_tables", "default", Inline(TplPlain),
                DataOk, Left(Batches, AppendArgs, i), Right(Batches, AppendArgs, i))]
    \o
    [i \in 1..Len(Batches) |->
        Payload("render_with_tables", "default", Inline(TplTables), DataOk, Batches[i], <<>>)]
    \o
    [i \in 1..(Len(HoftalonRefs) * Len(DataSets)) |->
        Payload("render_with_tables", "hoftalon", Left(HoftalonRefs, DataSets, i),
                Right(HoftalonRefs, DataSets, i),
                <<TableR1, TableR2, TableAtividades>>, <<>>)]
    \o
    [i \in 1..(Len(Batches) * Len(AppendArgs)) |->
        Payload("render_with_tables", "hoftalon", NoTemplate, DataOk,
                Left(Batches, AppendArgs, i), Right(Batches, AppendArgs, i))]
    \o
    [i \in 1..(Len(FormRefs) * Len(FormData)) |->
        Payload("generate", "default", Left(FormRefs, FormData, i),
                Right(FormRefs, FormData, i), <<>>, <<>>)]


-----------------------------------------------------------------------------
(* render_api and render_with_tables, one request at a time.  The stages   *)
(* are steps; trace records each stage the handler ran and how it ended.   *)

Stage(stage, i, ok) == [stage |-> stage, table |-> i, ok |-> ok]

HttpError(status, detail) == [status |-> status, detail |-> detail, output |-> ""]

Hoftalon == payload.endpoint = "render_with_tables" /\ payload.report_style = "hoftalon"

\* template_text or ""
TextOrEmpty(t) == IF IsNone(t) THEN <<>> ELSE Value(t)

flowRest ==
    <<payload, templates, sessions, poolVars, headerVars, mode, text2, result2, edits, changed>>

tableVars == <<text, delimiter, has_header, dialect, result, spec, verdict>>

\* the handler raises HTTPException (or lets an exception through) in a stage
Fails(stage, i, error) ==
    /\ trace' = Append(trace, Stage(stage, i, FALSE))
    /\ response' = error
    /\ pc' = "done"

\* the stage is over and the handler goes on
Passes(stage, i, next) ==
    /\ trace' = Append(trace, Stage(stage, i, TRUE))
    /\ pc' = next
    /\ UNCHANGED response

\* the template of the request as render_with_tables hands it on
TemplateInput(p) ==
    LET template_input == IF IsNone(p.template) THEN <<>> ELSE StripTemplate(Value(p.template))
    IN  IF p.report_style = "hoftalon" /\ template_input = StripTemplate(FLOW_TEMPLATE_EXAMPLE)
        THEN <<>>
        ELSE template_input

\* the template stage of the two handlers: text, record and error
ResolveFor(stored, p) ==
    LET template_input == TemplateInput(p)
        template_request ==
            [template |-> IF template_input = <<>> THEN <<>> ELSE Some(template_input),
             template_id |-> p.template_id, template_key |-> p.template_key,
             template_version |-> p.template_version]
        named == \/ template_input # <<>>
                 \/ ~IsNone(p.template_id) /\ Value(p.template_id) # 0
                 \/ ~IsNone(p.template_key) /\ Value(p.template_key) # <<>>
    IN  IF p.endpoint = "generate" THEN resolve_template_for_form(stored, p)
        ELSE IF p.endpoint = "render_api" THEN resolve_template_for_payload(stored, p)
        ELSE IF p.report_style # "hoftalon"
        THEN resolve_template_for_payload(stored, template_request)
        ELSE LET r == IF named THEN resolve_template_for_payload(stored, template_request)
                      ELSE [text |-> Some(HOFTALON_BASE_TEMPLATE), record |-> <<>>, error |-> ""]
             IN  IF r.error # "" THEN r
                 ELSE IF validate_template_text(TextOrEmpty(r.text)) # ""
                      THEN Unresolved(validate_template_text(TextOrEmpty(r.text)))
                 ELSE r

ResolveTemplate ==
    /\ pc = "resolve"
    /\ LET r == ResolveFor(templates, payload)
       IN  IF r.error # ""
           THEN /\ Fails("resolve", 0, HttpError(400, r.error))
                /\ UNCHANGED <<template_text, template_record>>
           ELSE /\ Passes("resolve", 0, "validate_data")
                /\ template_text' = r.text
                /\ template_record' = r.record
    /\ UNCHANGED <<excel_delimiter, tableVars, flowRest, tables_html, tables_meta, sent,
                   render_data, output_html, reports>>

\* the error of the data stage, "" when there is none
DataError(p) ==
    IF validate_data_obj(p.data) # "" THEN validate_data_obj(p.data)
    ELSE IF p.endpoint = "render_with_tables" /\ p.report_style = "hoftalon"
    THEN validate_hoftalon_data(p.data)
    ELSE ""

\* the data stage without its checks: the handler goes on whatever the data are
ValidateDataProceeds ==
    /\ pc = "validate_data"
    /\ Passes("validate_data", 0, IF payload.endpoint = "render_with_tables" THEN "count" ELSE "merge")
    /\ UNCHANGED <<excel_delimiter, tableVars, flowRest, template_text, template_record,
                   tables_html, tables_meta, sent, render_data, output_html, reports>>

ValidateData ==
    /\ pc = "validate_data"
    /\ IF DataError(payload) # ""
       THEN Fails("validate_data", 0, HttpError(400, DataError(payload)))
       ELSE Passes("validate_data", 0,
                   IF payload.endpoint = "render_with_tables" THEN "count" ELSE "merge")
    /\ UNCHANGED <<excel_delimiter, tableVars, flowRest, template_text, template_record,
                   tables_html, tables_meta, sent, render_data, output_html, reports>>

\* if len(payload.tables) > MAX_LLM_TABLES
CountTables ==
    /\ pc = "count"
    /\ IF Len(payload.tables) > MAX_LLM_TABLES
       THEN Fails("tables", 0, HttpError(400, "Numero maximo de tabelas"))
       ELSE /\ pc' = IF payload.tables = <<>> THEN "merge" ELSE "table"
            /\ UNCHANGED <<trace, response>>
    /\ UNCHANGED <<excel_delimiter, tableVars, flowRest, template_text, template_record,
                   tables_html, tables_meta, sent, render_data, output_html, reports>>

\* the table the loop is at
Current == Len(tables_meta) + 1

AfterTable(done) == IF done = Len(payload.tables) THEN "merge" ELSE "table"

\* a loop that does not look for the key among the tables stored
NeverDuplicate(pairs, key) == FALSE

\* if key in tables_html
DuplicateKey(pairs, key) == HasKey(pairs, key)

\* the checks of a table before it is parsed: status and detail, 0 when it passes
TableError(table, pairs) ==
    LET k == normalize_table_key(table.key)
    IN  IF k.error # "" THEN HttpError(400, k.error)
        ELSE IF DuplicateKey(pairs, k.key) THEN HttpError(400, "Tabela duplicada")
        ELSE IF Strip(table.csv) = <<>> THEN HttpError(400, "CSV vazio para a tabela")
        ELSE IF Len(Strip(table.csv)) > MAX_CSV_BYTES
             THEN HttpError(413, "CSV muito grande para a tabela")
        ELSE HttpError(0, "")

\* one turn of the loop up to the call of the generator; the activities table
\* of the strict style is built without it
ProcessTable ==
    /\ pc = "table"
    /\ LET table == payload.tables[Current]
           failed == TableError(table, tables_html)
           key == normalize_table_key(table.key).key
           csv_text == Strip(table.csv)
           delimiter_value == DelimiterValue(table.delimiter)
       IN  IF failed.status # 0
           THEN /\ Fails("tables", Current, failed)
                /\ UNCHANGED <<excel_delimiter, tableVars, tables_html, tables_meta, sent>>
           ELSE \E sniffed \in IF delimiter_value = None THEN SniffOutcomes ELSE {NotSniffed} :
                LET d == DialectFor(delimiter_value, sniffed, excel_delimiter)
                    parsed == IF d.error # "" THEN Failure(d.error)
                              ELSE parse_csv_text_strict(csv_text, d.dialect, table.has_header)
                    activities == ActivitiesTable(parsed)
                IN  /\ excel_delimiter' = d.excel
                    /\ dialect' = d.dialect
                    /\ text' = csv_text
                    /\ delimiter' = delimiter_value
                    /\ has_header' = table.has_header
                    /\ result' = parsed
                    /\ UNCHANGED <<spec, verdict>>
                    /\ IF ~parsed.ok
                       THEN /\ Fails("tables", Current, HttpError(400, parsed.error))
                            /\ UNCHANGED <<tables_html, tables_meta, sent>>
                       ELSE IF Hoftalon /\ key = KeyAtividades
                       THEN IF activities.error # ""
                            THEN /\ Fails("tables", Current, HttpError(400, activities.error))
                                 /\ UNCHANGED <<tables_html, tables_meta, sent>>
                            ELSE /\ Passes("tables", Current, AfterTable(Current))
                                 /\ tables_html' = PutPair(tables_html, key, activities.html)
                                 /\ tables_meta' =
                                        Append(tables_meta,
                                               Meta(key, [parsed EXCEPT !.headers =
                                                            HOFTALON_ACTIVIDADES_COLUMNS],
                                                    table.has_header))
                                 /\ UNCHANGED sent
                       ELSE /\ pc' = "generate"
                            /\ sent' = Append(sent, Current)
                            /\ UNCHANGED <<trace, response, tables_html, tables_meta>>
    /\ UNCHANGED <<flowRest, template_text, template_record, render_data, output_html, reports>>

\* generate_llm_spec raised: 501 when the client library is absent, 400 when the call failed
GeneratorFails ==
    /\ pc = "generate"
    /\ \E r \in {HttpError(501, "dependencies"), HttpError(400, "llm")} :
            Fails("tables", Current, r)
    /\ UNCHANGED <<excel_delimiter, tableVars, flowRest, template_text, template_record,
                   tables_html, tables_meta, sent, render_data, output_html, reports>>

\* what the generator can answer: the table, the table with its first cell
\* changed, the table without its last row
Answers(parsed) ==
    LET faithful == [columns |-> parsed.headers, rows |-> parsed.rows]
    IN  {faithful}
          \cup (IF parsed.rows = <<>> \/ parsed.headers = <<>> THEN {}
                ELSE { [faithful EXCEPT !.rows[1][parsed.headers[1]] = Cell9],
                       [faithful EXCEPT !.rows = SubSeq(parsed.rows, 1, Len(parsed.rows) - 1)] })

\* the rest of generate_llm_html_from_csv and of the turn of the loop; the
\* table is stored whatever validate_against_csv finds
GeneratorAnswersUnvalidated ==
    /\ pc = "generate"
    /\ \E sp \in Answers(result) :
          /\ spec' = sp
          /\ verdict' = validate_against_csv(sp, result.headers, result.rows)
          /\ Passes("tables", Current, AfterTable(Current))
          /\ tables_html' = PutPair(tables_html, normalize_table_key(payload.tables[Current].key).key,
                                    build_html_table(sp.columns, sp.rows))
          /\ tables_meta' = Append(tables_meta,
                                   Meta(normalize_table_key(payload.tables[Current].key).key,
                                        result, has_header))
    /\ UNCHANGED <<excel_delimiter, text, delimiter, has_header, dialect, result, flowRest,
                   template_text, template_record, sent, render_data, output_html, reports>>

\* the rest of generate_llm_html_from_csv and of the turn of the loop; the
\* ValueError of validate_against_csv is caught nowhere
GeneratorAnswers ==
    /\ pc = "generate"
    /\ \E sp \in Answers(result) :
          /\ spec' = sp
          /\ verdict' = validate_against_csv(sp, result.headers, result.rows)
          /\ IF verdict'.kind = "ok"
             THEN /\ Passes("tables", Current, AfterTable(Current))
                  /\ tables_html' =
                        PutPair(tables_html, normalize_table_key(payload.tables[Current].key).key,
                                build_html_table(sp.columns, sp.rows))
                  /\ tables_meta' =
                        Append(tables_meta,
                               Meta(normalize_table_key(payload.tables[Current].key).key,
                                    result, has_header))
             ELSE /\ Fails("tables", Current, HttpError(500, "Internal Server Error"))
                  /\ UNCHANGED <<tables_html, tables_meta>>
    /\ UNCHANGED <<excel_delimiter, text, delimiter, has_header, dialect, result, flowRest,
                   template_text, template_record, sent, render_data, output_html, reports>>

MetaVal(meta) == [ty |-> "meta", v |-> meta]

\* render_data before the custom pages are prepared
MergedData(p, pairs, meta) ==
    LET merged == IF pairs # <<>>
                  THEN Put(Put(p.data, "tables_html", DictVal(pairs)), "tables_meta", MetaVal(meta))
                  ELSE p.data
    IN  IF p.endpoint = "render_with_tables" /\ p.report_style = "hoftalon"
        THEN build_hoftalon_render_data(merged, meta)
        ELSE merged

MergeContext ==
    /\ pc = "merge"
    /\ \E o \in prepare_custom_pages_data(MergedData(payload, tables_html, tables_meta)) :
          IF o.raised
          THEN /\ Fails("merge", 0, HttpError(500, "Internal Server Error"))
               /\ UNCHANGED render_data
          ELSE IF o.error # ""
          THEN /\ Fails("merge", 0, HttpError(400, o.error))
               /\ UNCHANGED render_data
          ELSE /\ Passes("merge", 0, "evaluate")
               /\ render_data' = o.render_data
    /\ UNCHANGED <<excel_delimiter, tableVars, flowRest, template_text, template_record,
                   tables_html, tables_meta, sent, output_html, reports>>

\* tables appended whenever append_tables is not given, whatever the template
AppendsTablesWhenUnset(p, template, pairs) ==
    /\ p.endpoint = "render_with_tables"
    /\ p.report_style # "hoftalon"
    /\ (IsNone(p.append_tables) \/ Value(p.append_tables))
    /\ pairs # <<>>

\* whether the tables are appended to the output
AppendsTables(p, template, pairs) ==
    /\ p.endpoint = "render_with_tables"
    /\ p.report_style # "hoftalon"
    /\ IF IsNone(p.append_tables) THEN ~MentionsTablesHtml(template) ELSE Value(p.append_tables)
    /\ pairs # <<>>

Evaluate ==
    /\ pc = "evaluate"
    /\ \E r \in render_html_safe(TextOrEmpty(template_text), render_data) :
          IF ~IsNone(r.error)
          THEN /\ Fails("evaluate", 0, HttpError(400, Value(r.error).msg))
               /\ UNCHANGED output_html
          ELSE /\ Passes("evaluate", 0, IF Hoftalon THEN "validate_output" ELSE "save")
               /\ output_html' =
                     IF AppendsTables(payload, TextOrEmpty(template_text), tables_html)
                     THEN AppendTables(Value(r.output), tables_html)
                     ELSE Value(r.output)
    /\ UNCHANGED <<excel_delimiter, tableVars, flowRest, template_text, template_record,
                   tables_html, tables_meta, sent, render_data, reports>>

ValidateOutput ==
    /\ pc = "validate_output"
    /\ IF validate_hoftalon_output(output_html, tables_meta) # ""
       THEN Fails("validate_output", 0,
                  HttpError(400, validate_hoftalon_output(output_html, tables_meta)))
       ELSE Passes("validate_output", 0, "save")
    /\ UNCHANGED <<excel_delimiter, tableVars, flowRest, template_text, template_record,
                   tables_html, tables_meta, sent, render_data, output_html, reports>>

Report ==
    [template_id |-> IF IsNone(template_record) THEN <<>> ELSE <<Value(template_record).id>>,
     template_key |-> IF IsNone(template_record) THEN <<>> ELSE <<Value(template_record).key>>,
     template_version |->
        IF IsNone(template_record) THEN <<>> ELSE <<Value(template_record).version>>,
     template |-> TextOrEmpty(template_text),
     data |-> payload.data,
     markdown |-> output_html]

\* return {"html": output_html}
Returns == [status |-> 200, detail |-> "", output |-> "html"]

SaveNotice == "Relatorio gerado, mas nao foi possivel salvar."

\* what the handler returns after save_report: render_api and
\* render_with_tables drop the message of save_report, generate shows the
\* document together with a notice
AfterSave(save_error) ==
    IF payload.endpoint = "generate" /\ save_error
    THEN [Returns EXCEPT !.detail = SaveNotice]
    ELSE Returns

\* save_report committed
SaveReport ==
    /\ pc = "save"
    /\ reports' = Append(reports, Report)
    /\ trace' = Append(trace, Stage("save", 0, TRUE))
    /\ response' = AfterSave(FALSE)
    /\ pc' = "done"
    /\ UNCHANGED <<excel_delimiter, tableVars, flowRest, template_text, template_record,
                   tables_html, tables_meta, sent, render_data, output_html>>

\* a save_report that lets the exception of session.commit() through
SaveReportRaises ==
    /\ pc = "save"
    /\ trace' = Append(trace, Stage("save", 0, FALSE))
    /\ response' = HttpError(500, "Internal Server Error")
    /\ pc' = "done"
    /\ UNCHANGED <<excel_delimiter, tableVars, flowRest, template_text, template_record,
                   tables_html, tables_meta, sent, render_data, output_html, reports>>

\* session.commit() raised: rolled back, and save_report returns a message
SaveReportFails ==
    /\ pc = "save"
    /\ trace' = Append(trace, Stage("save", 0, FALSE))
    /\ response' = AfterSave(TRUE)
    /\ pc' = "done"
    /\ UNCHANGED <<excel_delimiter, tableVars, flowRest, template_text, template_record,
                   tables_html, tables_meta, sent, render_data, output_html, reports>>

InitFlow ==
    /\ pc = "resolve"
    /\ excel_delimiter \in {",", ";"}
    /\ IdleCsv /\ IdleHeaders /\ IdleLlm /\ IdlePool
    /\ \E i \in 1..Len(Payloads) : payload = Payloads[i]
    /\ templates = StoredTemplates
    /\ trace = <<>>
    /\ template_text = <<>> /\ template_record = <<>>
    /\ tables_html = <<>> /\ tables_meta = <<>> /\ sent = <<>>
    /\ render_data = <<>> /\ output_html = <<>> /\ reports = <<>>
    /\ sessions = <<>>

NextFlow ==
    \/ ResolveTemplate \/ ValidateData \/ CountTables
    \/ ProcessTable \/ GeneratorFails \/ GeneratorAnswers
    \/ MergeContext \/ Evaluate \/ ValidateOutput
    \/ SaveReport \/ SaveReportFails

SpecFlow == InitFlow /\ [][NextFlow]_vars


-----------------------------------------------------------------------------
(* Properties of render_api and render_with_tables.                        *)

StageOrder ==
    <<"resolve", "validate_data", "tables", "merge", "evaluate", "validate_output", "save">>

StageIndex(stage) == CHOOSE i \in 1..Len(StageOrder) : StageOrder[i] = stage

RanOk(stage, i) == \E j \in 1..Len(trace) : trace[j] = Stage(stage, i, TRUE)

\* the stages of the request before the report is saved
EarlierStages ==
    {"resolve", "validate_data", "merge", "evaluate"}
        \cup (IF Hoftalon THEN {"validate_output"} ELSE {})

EarlierStagesSucceeded ==
    /\ \A stage \in EarlierStages : RanOk(stage, 0)
    /\ \A i \in 1..Len(payload.tables) : RanOk("tables", i)
    /\ ResolveFor(templates, payload).error = ""
    /\ DataError(payload) = ""
    /\ Len(payload.tables) <= MAX_LLM_TABLES
    /\ Len(tables_meta) = Len(payload.tables)
    /\ render_data # <<>>

\* the last stage that ran failed, and it was not the saving of the report
StageFailed ==
    /\ trace # <<>>
    /\ ~trace[Len(trace)].ok
    /\ trace[Len(trace)].stage # "save"

\* C15: the stages of render_api and render_with_tables run in the order
\* resolve template, validate data, process tables (one after the other),
\* merge context, evaluate, validate output, save report; a stage runs only
\* when every stage before it succeeded, a failed stage ends the request
\* with an error and without a report, and a report is saved and the output
\* returned only when every earlier stage has run and succeeded.
C15_StagesInOrder ==
    /\ \A i \in 1..(Len(trace) - 1) :
          /\ trace[i].ok
          /\ \/ StageIndex(trace[i].stage) < StageIndex(trace[i + 1].stage)
             \/ /\ trace[i].stage = "tables" /\ trace[i + 1].stage = "tables"
                /\ trace[i + 1].table = trace[i].table + 1
    /\ StageFailed =>
          /\ pc = "done"
          /\ response.status \notin {0, 200}
          /\ response.output = ""
          /\ reports = <<>>
    /\ (reports # <<>> \/ response.output # "" \/ response.status = 200 \/ pc = "save") =>
          EarlierStagesSucceeded

\* a request of the strict style with three tables went through every stage
C15_Witness ==
    /\ pc = "done"
    /\ Hoftalon
    /\ Len(payload.tables) = 3
    /\ Len(trace) = Len(StageOrder) + 2
    /\ trace[Len(trace)] = Stage("save", 0, TRUE)
    /\ reports # <<>>
    /\ response = Returns


\* the entries of trace that are turns of the table loop
TableTurns == SelectSeq(trace, LAMBDA e : e.stage = "tables" /\ e.table > 0)

\* the last stage that ran was a turn of the table loop that failed
TableFailed == StageFailed /\ trace[Len(trace)].stage = "tables" /\ trace[Len(trace)].table > 0

KeyOf(i) == normalize_table_key(payload.tables[i].key).key

\* C16: render_with_tables takes the tables in the order of the request: the
\* k-th turn of the loop is table k, the k-th stored table is table k, a
\* table goes to the external generator only after every table before it
\* was stored, and a stored generated table passed validate_against_csv.
\* When the turn of table i fails, no table after i was parsed or sent to
\* the generator, nothing is merged into a render context, the template is
\* not evaluated, and the request ends with an error.
C16_TablesInOrder ==
    /\ \A k \in 1..Len(TableTurns) : TableTurns[k].table = k
    /\ \A k \in 1..Len(tables_meta) :
          /\ tables_meta[k].key = KeyOf(k)
          /\ tables_html[k].key = KeyOf(k)
    /\ \A k \in 1..Len(sent) :
          /\ k < Len(sent) => sent[k] < sent[k + 1]
          /\ sent[k] <= Current
          /\ k < Len(sent) \/ pc # "generate" => sent[k] <= Len(TableTurns)
    /\ /\ sent # <<>>
       /\ Len(tables_meta) = sent[Len(sent)]
       /\ pc \in {"table", "merge"}
       => /\ verdict.kind = "ok"
          /\ tables_html[Len(tables_meta)].value = build_html_table(result.headers, result.rows)
    /\ TableFailed =>
          LET i == trace[Len(trace)].table
          IN  /\ pc = "done"
              /\ response.status \notin {0, 200}
              /\ response.output = ""
              /\ Len(tables_meta) = i - 1
              /\ \A k \in 1..Len(sent) : sent[k] <= i
              /\ text \in {<<>>} \cup {Strip(payload.tables[k].csv) : k \in 1..i}
              /\ render_data = <<>>
              /\ output_html = <<>>
              /\ reports = <<>>
              /\ \A j \in 1..Len(trace) : trace[j].stage \notin {"merge", "evaluate", "save"}

\* the second of three tables was parsed and sent, and what came back did
\* not pass validate_against_csv; the first table had been stored
C16_Witness ==
    /\ TableFailed
    /\ trace[Len(trace)].table = 2
    /\ Len(payload.tables) = 3
    /\ sent = <<1, 2>>
    /\ verdict.kind # "ok"
    /\ response.status = 500
    /\ Len(tables_html) = 1


\* table i has a key that is empty after trimming, longer than the bound, or
\* the key of an earlier table
BadKey(i) ==
    LET key == Strip(payload.tables[i].key)
    IN  \/ key = <<>>
        \/ Len(key) > MAX_TEMPLATE_KEY_CHARS
        \/ \E j \in 1..(i - 1) : Strip(payload.tables[j].key) = key

BadKeys == {i \in 1..Len(payload.tables) : BadKey(i)}

FirstBadKey == CHOOSE i \in BadKeys : \A j \in BadKeys : i <= j

\* the table loop is over and the handler went on
TablesCompleted ==
    /\ payload.endpoint = "render_with_tables"
    /\ \/ pc \in {"merge", "evaluate", "validate_output", "save"}
       \/ \E j \in 1..Len(trace) : trace[j].stage \in {"merge", "evaluate", "save"}

\* C17: a request with more than MAX_LLM_TABLES tables is rejected with no
\* table parsed or sent to the external generator; a batch with a key that
\* is empty after trimming, too long, or equal after trimming to an earlier
\* key is rejected with status 400 at that table, which is neither sent nor
\* stored; and when the table loop completes, tables_html has one entry for
\* each submitted table, under its trimmed key.
C17_TableLimits ==
    /\ Len(payload.tables) > MAX_LLM_TABLES =>
          /\ sent = <<>> /\ tables_html = <<>> /\ text = <<>>
          /\ pc \in {"resolve", "validate_data", "count", "done"}
          /\ response.status # 200
          /\ pc = "done" /\ RanOk("validate_data", 0) => response.status = 400
    /\ BadKeys # {} =>
          /\ Len(tables_meta) < FirstBadKey
          /\ \A k \in 1..Len(sent) : sent[k] < FirstBadKey
          /\ ~TablesCompleted
          /\ response.status # 200
          /\ pc = "done" /\ RanOk("tables", FirstBadKey - 1) /\ FirstBadKey > 1 =>
                /\ trace[Len(trace)] = Stage("tables", FirstBadKey, FALSE)
                /\ response.status = 400
    /\ TablesCompleted =>
          /\ Len(tables_html) = Len(payload.tables)
          /\ \A i \in 1..Len(payload.tables) :
                /\ tables_html[i].key = Strip(payload.tables[i].key)
                /\ \A j \in 1..Len(payload.tables) :
                      tables_html[i].key = tables_html[j].key => i = j

\* the second table repeats the key of the first with a space before it
C17_Witness ==
    /\ pc = "done"
    /\ Len(payload.tables) = 2
    /\ BadKeys = {2}
    /\ Strip(payload.tables[2].key) = Strip(payload.tables[1].key)
    /\ payload.tables[2].key # payload.tables[1].key
    /\ trace[Len(trace)] = Stage("tables", 2, FALSE)
    /\ response = HttpError(400, "Tabela duplicada")
    /\ sent = <<1>>


-----------------------------------------------------------------------------
(* Properties of the documents of the strict style.                        *)

\* the document was accepted: on its way to be saved, saved, or returned
Accepted == pc = "save" \/ reports # <<>> \/ response.status = 200

\* C18: in the strict style a rendered document that has the six section
\* headers with their first occurrences out of the required order is never
\* accepted, saved or returned: the request ends with an error.
C18_OutOfOrderRejected ==
    Hoftalon /\ output_html # <<>> /\ SectionsOutOfOrder(output_html) => ~Accepted

\* C19: in the strict style a rendered document that contains a forbidden
\* term as a whole word, in any letter case, is never accepted, saved or
\* returned: the request ends with an error.
C19_ForbiddenTermRejected ==
    Hoftalon /\ output_html # <<>> /\ find_forbidden_terms(output_html) # <<>> => ~Accepted


\* the request names no template: no text, no id, no key
NoTemplateGiven ==
    IsNone(payload.template) /\ IsNone(payload.template_id) /\ IsNone(payload.template_key)

\* the data leave the cover of the base template on
CoverKept(data) ==
    /\ "show_base_cover" \in DOMAIN data => Truthy(data["show_base_cover"])
    /\ "custom_pages" \in DOMAIN data /\ data["custom_pages"].ty = "pages" =>
          \A i \in 1..Len(data["custom_pages"].v) :
              LayoutOf(data["custom_pages"].v[i]) # <<"c", "o", "v", "e", "r">>

\* a request of the strict style whose template was evaluated is answered
\* with status 200 and the HTML
EvaluatedAnswered ==
    Hoftalon /\ RanOk("evaluate", 0) =>
        /\ pc \in {"validate_output", "save", "done"}
        /\ output_html # <<>>
        /\ pc = "done" => response = Returns

-----------------------------------------------------------------------------
(* The templates table and the handlers that read and write it.  Each      *)
(* request has a session of its own: what it read stays as it was read,    *)
(* and its writes reach the table when it commits.  The table enforces     *)
(* uq_template_key_version.                                                *)

Threads == {"r1", "r2", "r3"}

\* key = value.strip(); the key, or the error
normalize_template_key(value) ==
    LET key == Strip(value)
    IN  IF key = <<>> THEN [key |-> <<>>, error |-> "Nome do template e obrigatorio."]
        ELSE IF Len(key) > MAX_TEMPLATE_KEY_CHARS
             THEN [key |-> <<>>, error |-> "Nome do template muito longo"]
        ELSE [key |-> key, error |-> ""]

IsDigits(s) ==
    s # <<>> /\ \A i \in 1..Len(s) : s[i] \in {"0", "1", "2", "3", "4", "5", "6", "7", "8", "9"}

RECURSIVE NatOf(_)
NatOf(s) ==
    IF s = <<>> THEN 0
    ELSE 10 * NatOf(SubSeq(s, 1, Len(s) - 1))
            + (CHOOSE d \in 0..9 : Digit(d) = s[Len(s)])

\* version = int(value); the version, or the error
parse_template_version(value) ==
    IF Strip(value) = <<>> THEN [version |-> 0, error |-> "Versao e obrigatoria."]
    ELSE IF ~IsDigits(Strip(value))
         THEN [version |-> 0, error |-> "Versao deve ser um numero inteiro."]
    ELSE IF NatOf(Strip(value)) < 1
         THEN [version |-> 0, error |-> "Versao deve ser maior ou igual a 1."]
    ELSE [version |-> NatOf(Strip(value)), error |-> ""]

Row(id, key, version, body, active) ==
    [id |-> id, key |-> key, version |-> version, body |-> body, is_active |-> active]

\* session.get(Template, id): the row, if there is one
GetTemplate(stored, id) == {t \in stored : t.id = id}

\* the id the table gives the next row
NextId(stored) == Cardinality(stored) + 1

\* a table without the constraint
Unconstrained(stored) == TRUE

\* UniqueConstraint("key", "version"): what the table accepts at a commit
UniqueKeyVersion(stored) ==
    \A t, u \in stored : t.key = u.key /\ t.version = u.version => t.id = u.id

StoreRequest(op, id, key, version, body, ref) ==
    [op |-> op, id |-> id, key |-> key, version |-> version, body |-> body, ref |-> ref]

NoSession ==
    [pc |-> "idle", req |-> StoreRequest("", 0, <<>>, <<>>, <<>>, NoTemplate),
     seen |-> {}, others |-> {}, status |-> 0, detail |-> "", result |-> Unresolved("")]

\* the answer of a handler
Answer(s, status, detail) == [s EXCEPT !.pc = "done", !.status = status, !.detail = detail]

DuplicateError == "Ja existe um template com esse nome e versao."

\* the checks of save_template and update_template on the form: the error, or ""
FormError(req) ==
    IF validate_template_text(req.body) # "" THEN validate_template_text(req.body)
    ELSE IF normalize_template_key(req.key).error # ""
    THEN normalize_template_key(req.key).error
    ELSE parse_template_version(req.version).error

\* save_template up to session.add(new_template)
SaveTemplateCheck(th) ==
    /\ sessions[th].pc = "start" /\ sessions[th].req.op = "save"
    /\ LET req == sessions[th].req
           key == normalize_template_key(req.key).key
           version == parse_template_version(req.version).version
       IN  sessions' = [sessions EXCEPT ![th] =
              IF FormError(req) # "" THEN Answer(@, 400, FormError(req))
              ELSE IF \E t \in templates : t.key = key /\ t.version = version
                   THEN Answer(@, 400, DuplicateError)
              ELSE [@ EXCEPT !.pc = "commit"]]
    /\ UNCHANGED templates

\* session.commit() of save_template: the INSERT, or IntegrityError and rollback
SaveTemplateCommit(th) ==
    /\ sessions[th].pc = "commit" /\ sessions[th].req.op = "save"
    /\ LET req == sessions[th].req
           new_template == Row(NextId(templates), normalize_template_key(req.key).key,
                               parse_template_version(req.version).version, req.body, TRUE)
       IN  IF UniqueKeyVersion(templates \cup {new_template})
           THEN /\ templates' = templates \cup {new_template}
                /\ sessions' = [sessions EXCEPT ![th] = Answer(@, 200, "")]
           ELSE /\ UNCHANGED templates
                /\ sessions' = [sessions EXCEPT ![th] = Answer(@, 400, DuplicateError)]

\* update_template up to session.add(existing)
UpdateTemplateCheck(th) ==
    /\ sessions[th].pc = "start" /\ sessions[th].req.op = "update"
    /\ LET req == sessions[th].req
           key == normalize_template_key(req.key).key
           version == parse_template_version(req.version).version
       IN  sessions' = [sessions EXCEPT ![th] =
              IF GetTemplate(templates, req.id) = {} THEN Answer(@, 404, "Template nao encontrado.")
              ELSE IF FormError(req) # "" THEN Answer(@, 400, FormError(req))
              ELSE IF \E t \in templates :
                        t.key = key /\ t.version = version /\ t.id # req.id
                   THEN Answer(@, 400, DuplicateError)
              ELSE [@ EXCEPT !.pc = "commit", !.seen = GetTemplate(templates, req.id)]]
    /\ UNCHANGED templates

\* the row after the UPDATE of a session: the attributes the session changed
\* are written, the others stay as they are in the table
Updated(row, seen, new) ==
    [f \in DOMAIN row |-> IF new[f] # seen[f] THEN new[f] ELSE row[f]]

\* the table after the UPDATE statements of a session
Written(stored, id, seen, new) ==
    {IF t.id = id THEN Updated(t, seen, new) ELSE t : t \in stored}

\* session.commit() of update_template: the UPDATE, or IntegrityError and rollback
UpdateTemplateCommit(th) ==
    /\ sessions[th].pc = "commit" /\ sessions[th].req.op = "update"
    /\ LET req == sessions[th].req
           existing == CHOOSE t \in sessions[th].seen : TRUE
           edited == [existing EXCEPT !.key = normalize_template_key(req.key).key,
                                        !.version = parse_template_version(req.version).version,
                                        !.body = req.body]
           written == Written(templates, req.id, existing, edited)
       IN  IF UniqueKeyVersion(written)
           THEN /\ templates' = written
                /\ sessions' = [sessions EXCEPT ![th] = Answer(@, 200, "")]
           ELSE /\ UNCHANGED templates
                /\ sessions' = [sessions EXCEPT ![th] = Answer(@, 400, DuplicateError)]

\* deactivate_template up to session.commit()
DeactivateTemplateRead(th) ==
    /\ sessions[th].pc = "start" /\ sessions[th].req.op = "deactivate"
    /\ LET found == GetTemplate(templates, sessions[th].req.id)
       IN  sessions' = [sessions EXCEPT ![th] =
              IF found = {} THEN Answer(@, 404, "Template nao encontrado.")
              ELSE IF \E t \in found : t.is_active
                   THEN [@ EXCEPT !.pc = "commit", !.seen = found]
              ELSE Answer(@, 303, "")]
    /\ UNCHANGED templates

DeactivateTemplateCommit(th) ==
    /\ sessions[th].pc = "commit" /\ sessions[th].req.op = "deactivate"
    /\ templates' = {IF t.id = sessions[th].req.id THEN [t EXCEPT !.is_active = FALSE] ELSE t :
                        t \in templates}
    /\ sessions' = [sessions EXCEPT ![th] = Answer(@, 303, "")]

\* activate_template up to session.commit(): others holds the rows of the
\* same key that were read as active, the ones the commit writes
ActivateTemplateRead(th) ==
    /\ sessions[th].pc = "start" /\ sessions[th].req.op = "activate"
    /\ LET found == GetTemplate(templates, sessions[th].req.id)
           template == CHOOSE t \in found : TRUE
       IN  sessions' = [sessions EXCEPT ![th] =
              IF found = {} THEN Answer(@, 404, "Template nao encontrado.")
              ELSE IF template.is_active THEN Answer(@, 303, "")
              ELSE [@ EXCEPT !.pc = "commit", !.seen = found,
                             !.others = {t.id : t \in {u \in templates :
                                            /\ u.key = template.key /\ u.id # template.id
                                            /\ u.is_active}}]]
    /\ UNCHANGED templates

ActivateTemplateCommit(th) ==
    /\ sessions[th].pc = "commit" /\ sessions[th].req.op = "activate"
    /\ templates' = {IF t.id = sessions[th].req.id THEN [t EXCEPT !.is_active = TRUE]
                     ELSE IF t.id \in sessions[th].others THEN [t EXCEPT !.is_active = FALSE]
                     ELSE t : t \in templates}
    /\ sessions' = [sessions EXCEPT ![th] = Answer(@, 303, "")]

\* a call of resolve_template_for_payload on the table as it is
ResolveCall(th) ==
    /\ sessions[th].pc = "start" /\ sessions[th].req.op = "resolve"
    /\ LET r == resolve_template_for_payload(templates, sessions[th].req.ref)
       IN  sessions' = [sessions EXCEPT ![th] =
              [Answer(@, IF r.error = "" THEN 200 ELSE 400, r.error) EXCEPT !.result = r]]
    /\ UNCHANGED templates


KeyJ == <<"j">>

SaveRequest(key, version, body) == StoreRequest("save", 0, key, version, body, NoTemplate)

UpdateRequest(id, key, version, body) ==
    StoreRequest("update", id, key, version, body, NoTemplate)

IdRequest(op, id) == StoreRequest(op, id, <<>>, <<>>, <<>>, NoTemplate)

ResolveRequest(ref) == StoreRequest("resolve", 0, <<>>, <<>>, <<>>, ref)

WriteRequests ==
    { SaveRequest(KeyK, <<"1">>, TplPlain),
      SaveRequest(KeyK, <<"3">>, TplPlain),
      SaveRequest(<<" ">> \o KeyK, <<"3">>, TplTables),
      SaveRequest(KeyK, <<"x">>, TplPlain),
      SaveRequest(<<" ">>, <<"1">>, TplBlank),
      UpdateRequest(1, KeyK, <<"2">>, TplTables),
      UpdateRequest(2, KeyK, <<"3">>, TplTables),
      UpdateRequest(1, KeyJ, <<"1">>, TplPlain),
      UpdateRequest(9, KeyK, <<"1">>, TplPlain) }

ToggleRequests ==
    { IdRequest("activate", 1), IdRequest("activate", 2), IdRequest("activate", 9),
      IdRequest("deactivate", 1), IdRequest("deactivate", 9) }

ResolveRequests ==
    { ResolveRequest(ref) :
        ref \in { NoTemplate,
                  Ref(<<>>, <<1>>, <<>>, <<>>),
                  Ref(<<>>, <<2>>, <<>>, <<>>),
                  Ref(<<>>, <<>>, <<KeyK>>, <<3>>),
                  Ref(<<>>, <<>>, <<KeyK>>, <<>>),
                  Ref(Some(TplTables), <<1>>, <<>>, <<>>),
                  Ref(Some(TplTables), <<>>, <<KeyK>>, <<1>>),
                  Ref(Some(TplPlain), <<>>, <<KeyK>>, <<>>),
                  Ref(Some(TplBlank), <<>>, <<>>, <<>>) } }

\* the request each thread makes
RequestsOf(th) ==
    IF th = "r3" THEN ToggleRequests \cup ResolveRequests
    ELSE WriteRequests \cup ToggleRequests

storeRest ==
    <<pc, excel_delimiter, csvVars, headerVars, llmVars, poolVars, payload, trace,
      template_text, template_record, tables_html, tables_meta, sent, render_data,
      output_html, reports>>

InitStore ==
    /\ pc = "serving"
    /\ excel_delimiter = ","
    /\ IdleCsv /\ IdleHeaders /\ IdleLlm /\ IdlePool
    /\ payload = <<>> /\ trace = <<>>
    /\ template_text = <<>> /\ template_record = <<>>
    /\ tables_html = <<>> /\ tables_meta = <<>> /\ sent = <<>>
    /\ render_data = <<>> /\ output_html = <<>> /\ reports = <<>>
    /\ templates \in {{}, StoredTemplates}
    /\ \E reqs \in [Threads -> WriteRequests \cup ToggleRequests \cup ResolveRequests] :
          /\ \A th \in Threads : reqs[th] \in RequestsOf(th)
          /\ sessions = [th \in Threads |-> [NoSession EXCEPT !.pc = "start", !.req = reqs[th]]]

NextStore ==
    \E th \in Threads :
        /\ \/ SaveTemplateCheck(th) \/ SaveTemplateCommit(th)
           \/ UpdateTemplateCheck(th) \/ UpdateTemplateCommit(th)
           \/ ActivateTemplateRead(th) \/ ActivateTemplateCommit(th)
           \/ DeactivateTemplateRead(th) \/ DeactivateTemplateCommit(th)
           \/ ResolveCall(th)
        /\ UNCHANGED storeRest

SpecStore == InitStore /\ [][NextStore]_vars


-----------------------------------------------------------------------------
(* Properties of the stored templates.                                     *)

\* the step in which thread th calls resolve_template_for_payload
ResolveStep(th) ==
    /\ sessions[th].pc = "start" /\ sessions[th].req.op = "resolve"
    /\ sessions'[th].pc = "done"

CarriesId(ref) == ~IsNone(ref.template_id)

CarriesKeyAndVersion(ref) ==
    /\ ~IsNone(ref.template_key) /\ Value(ref.template_key) # <<>>
    /\ ~IsNone(ref.template_version)

CarriesInline(ref) == ~IsNone(ref.template)

\* the stored templates the request names, by id first and by key and
\* version otherwise
Named(stored, ref) ==
    IF CarriesId(ref) THEN {t \in stored : t.id = Value(ref.template_id)}
    ELSE IF CarriesKeyAndVersion(ref)
    THEN {t \in stored : /\ t.key = Value(ref.template_key)
                         /\ t.version = Value(ref.template_version)}
    ELSE {}

\* what the claim says of one call: ref the request, r what was returned,
\* stored the table at the time of the call
ResolvedAsClaimed(stored, ref, r) ==
    /\ (r.error = "") # IsNone(r.text)
    /\ ~CarriesId(ref) /\ ~CarriesKeyAndVersion(ref) /\ ~CarriesInline(ref) =>
          r.error = "Template ou template_id e obrigatorio."
    /\ CarriesId(ref) \/ CarriesKeyAndVersion(ref) =>
          /\ r.error = "" =>
                \E t \in Named(stored, ref) :
                    /\ t.is_active
                    /\ r.text = Some(t.body)
                    /\ r.record = Some(t)
          /\ (\E t \in Named(stored, ref) : t.is_active /\ validate_template_text(t.body) = "")
                => r.error = ""
          /\ Named(stored, ref) = {} => r.error = "Template nao encontrado."
    /\ ~CarriesId(ref) /\ ~CarriesKeyAndVersion(ref) /\ CarriesInline(ref) =>
          /\ r.error = "" => r.text = ref.template /\ IsNone(r.record)
          /\ r.error = "" <=> validate_template_text(Value(ref.template)) = ""
    /\ ~IsNone(r.record) => Value(r.record) \in stored /\ Value(r.record).is_active

\* C21: a call of resolve_template_for_payload fails with the validation
\* error when the request carries no template, no template_id and no
\* template_key with a template_version; otherwise it resolves from one
\* source, the stored template with that id, else the one with that key and
\* version, else the inline text; and it returns the text of a stored
\* template only when that template is in the table and active at the time
\* of the call.
C21_ResolvesOneSource ==
    [][\A th \in Threads :
          ResolveStep(th) =>
              ResolvedAsClaimed(templates, sessions[th].req.ref, sessions'[th].result)]_vars

\* a request with an inline text and the id of an active stored template,
\* made after another request changed the table, got the stored text
C21_Witness ==
    \E th \in Threads :
        /\ sessions[th].pc = "done" /\ sessions[th].req.op = "resolve"
        /\ CarriesInline(sessions[th].req.ref) /\ CarriesId(sessions[th].req.ref)
        /\ sessions[th].result.error = ""
        /\ sessions[th].result.text # sessions[th].req.ref.template
        /\ Value(sessions[th].result.record).id = 1
        /\ Value(sessions[th].result.record) \notin StoredTemplates


\* the step in which the handler of thread th answers
Completes(th, op) ==
    /\ sessions[th].req.op = op
    /\ sessions[th].pc # "done" /\ sessions'[th].pc = "done"

\* template id is active and no other template of its key is
OnlyActiveOfKey(stored, id) ==
    \A t \in stored :
        t.id = id =>
            /\ t.is_active
            /\ \A u \in stored : u.key = t.key /\ u.id # t.id => ~u.is_active

\* C22: when a request activate_template(t) for an existing template t
\* completes, t is active and every other stored template with the key of
\* t is inactive, whatever the flags were before the request.
C22_ActivateLeavesOneActive ==
    [][\A th \in Threads :
          Completes(th, "activate") /\ sessions'[th].status = 303 =>
              OnlyActiveOfKey(templates', sessions[th].req.id)]_vars


\* no two rows of the table have the same key and version
NoTwoSameKeyVersion(stored) ==
    \A t \in stored : \A u \in stored :
        t.id # u.id => <<t.key, t.version>> # <<u.key, u.version>>

\* the key and version a well-formed save or update request asks for
Asked(req) ==
    <<normalize_template_key(req.key).key, parse_template_version(req.version).version>>

\* the request of thread th is well formed and, were it carried out on the
\* table as it is now, a second row with its key and version would exist
WouldDuplicate(th) ==
    LET req == sessions[th].req
    IN  /\ req.op \in {"save", "update"}
        /\ FormError(req) = ""
        /\ req.op = "update" => GetTemplate(templates, req.id) # {}
        /\ \E t \in templates :
              /\ <<t.key, t.version>> = Asked(req)
              /\ req.op = "update" => t.id # req.id
        /\ req.op = "update" /\ sessions[th].pc = "commit" =>
              \A f \in {"key", "version"} :
                  \A t \in sessions[th].seen : \A e \in GetTemplate(templates, req.id) :
                      t[f] = e[f]

\* C27: however save_template and update_template requests interleave, no
\* two stored templates have the same key and version, and a request that
\* would create such a pair is answered with status 400 and the duplicate
\* name-and-version error and leaves the table as it was.
C27_KeyVersionUnique ==
    [][/\ NoTwoSameKeyVersion(templates)
       /\ NoTwoSameKeyVersion(templates')
       /\ \A th \in Threads :
             (Completes(th, "save") \/ Completes(th, "update")) /\ WouldDuplicate(th) =>
                 /\ sessions'[th].status = 400
                 /\ sessions'[th].detail = DuplicateError
                 /\ templates' = templates]_vars

\* two requests saved the same key and version, one of them with a space
\* before the key; both passed the check before either committed, the
\* first was stored and the second was answered with the duplicate error
C27_Witness ==
    \E th \in Threads : \E other \in Threads \ {th} :
        /\ sessions[th].req.op = "save" /\ sessions[other].req.op = "save"
        /\ sessions[th].req.key # sessions[other].req.key
        /\ Asked(sessions[th].req) = Asked(sessions[other].req)
        /\ sessions[th].pc = "done" /\ sessions[th].status = 200
        /\ sessions[other].pc = "done" /\ sessions[other].status = 400
        /\ sessions[other].detail = DuplicateError
        /\ \E t \in templates : <<t.key, t.version>> = Asked(sessions[th].req)
        /\ NoTwoSameKeyVersion(templates)


\* C28: however save, update, activate and deactivate requests interleave,
\* at most one stored template of each key is active.
C28_OneActivePerKey ==
    \A t \in templates : \A u \in templates :
        t.key = u.key /\ t.is_active /\ u.is_active => t.id = u.id


-----------------------------------------------------------------------------
(* Properties of the save stage.                                            *)

\* the save stage of the request ends in this step
SaveStageEnds == pc = "save" /\ pc' = "done"

SaveFailed == trace[Len(trace)] = Stage("save", 0, FALSE)

\* C23: a report that cannot be stored never fails the request: whether
\* save_report commits or rolls back, render_api, render_with_tables and
\* generate answer 200 with the evaluated document, and when it rolled back
\* no report was added.
C23_SaveNeverFailsRender ==
    [][SaveStageEnds =>
          /\ response'.status = 200
          /\ response'.output = "html"
          /\ output_html' = output_html
          /\ RanOk("evaluate", 0)
          /\ trace'[Len(trace')] = Stage("save", 0, FALSE) => reports' = reports]_vars

\* generate ended after a commit of the report that failed: the document is
\* returned with the notice and the reports table is empty
C23_Witness ==
    /\ pc = "done"
    /\ payload.endpoint = "generate"
    /\ SaveFailed
    /\ response = [status |-> 200, detail |-> SaveNotice, output |-> "html"]
    /\ output_html # <<>>
    /\ reports = <<>>


-----------------------------------------------------------------------------
(* Properties of the appended tables.                                       *)

\* the evaluation of render_with_tables succeeds in this step
TablesEvaluated ==
    pc = "evaluate" /\ pc' # "done" /\ payload.endpoint = "render_with_tables"

\* the condition under which the tables are appended
AppendCondition ==
    /\ payload.report_style # "hoftalon"
    /\ Len(payload.tables) >= 1
    /\ \/ payload.append_tables = <<TRUE>>
       \/ /\ payload.append_tables = <<>>
          /\ ~MentionsTablesHtml(TextOrEmpty(template_text))

\* the tables built for the request, one per submitted table and in the
\* order of submission, each followed by a newline
SubmittedTables ==
    [i \in 1..Len(payload.tables) |-> tables_html[i].value \o <<"\n">>]

InSubmissionOrder ==
    /\ Len(tables_html) = Len(payload.tables)
    /\ \A i \in 1..Len(payload.tables) :
          tables_html[i].key = normalize_table_key(payload.tables[i].key).key

\* out is an output of the template followed by the submitted tables
EndsWithTables(out) ==
    /\ InSubmissionOrder
    /\ \E r \in render_html_safe(TextOrEmpty(template_text), render_data) :
          /\ IsNone(r.error)
          /\ out = RStrip(Value(r.output)) \o <<"\n">> \o Concat(SubmittedTables)

\* out is an output of the template and nothing more
OutputOnly(out) ==
    \E r \in render_html_safe(TextOrEmpty(template_text), render_data) :
        IsNone(r.error) /\ out = Value(r.output)

\* C24: render_with_tables appends the tables to the end of the output, in
\* the order of submission, exactly when the style is not hoftalon, at least
\* one table was submitted, and append_tables is true or is not given while
\* the template text does not contain tables_html; with append_tables false
\* the output is the output of the template alone.
C24_TablesAppended ==
    [][TablesEvaluated =>
          /\ AppendCondition => EndsWithTables(output_html') /\ ~OutputOnly(output_html')
          /\ ~AppendCondition => OutputOnly(output_html') /\ ~EndsWithTables(output_html')
          /\ payload.append_tables = <<FALSE>> => OutputOnly(output_html')]_vars

\* three tables were submitted with a template that does not name
\* tables_html and without append_tables: the answer ends with the three
\* tables in their order
C24_Witness ==
    /\ pc = "done" /\ response.status = 200
    /\ payload.endpoint = "render_with_tables" /\ payload.report_style = "default"
    /\ payload.append_tables = <<>>
    /\ Len(payload.tables) = 3
    /\ InSubmissionOrder
    /\ Len(output_html) > Len(Concat(SubmittedTables))
    /\ SubSeq(output_html, Len(output_html) - Len(Concat(SubmittedTables)) + 1,
              Len(output_html)) = Concat(SubmittedTables)


-----------------------------------------------------------------------------
(* render_executor with all its users: the calls of render_html_safe and     *)
(* the page request read_root, whose fetch_active_templates_safe submits its *)
(* database query to the same pool and waits half a second for it.  Every    *)
(* job ends: the templates are drawn from those whose evaluation ends.       *)

Home == "read_root"

\* future = render_executor.submit(run_query)
QueryJob(owner) == [req |-> NoRequest, owner |-> owner, work |-> "run_query"]

NoHomeCall == [pc |-> "idle", future |-> <<>>, templates |-> {}]

\* what run_query returns: the active templates (their order is left out)
fetch_active_templates(stored) == {t \in stored : t.is_active}

\* the calls to come evaluate a template that takes no time; the evaluations
\* that take their time are the ones already running
TerminatingRequests == { Request(<<Lit(<<"a", "b">>)>>, NoData) }

\* evaluations whose callers timed out and that are still running
SlowJobs(k) == [i \in 1..k |-> Job(Request(<<Work, Lit(<<"a">>)>>, NoData), "abandoned")]

\* read_root calls fetch_active_templates_safe
SubmitQuery ==
    /\ sessions[Home].pc = "idle"
    /\ submitted < MaxJobs
    /\ submitted' = submitted + 1
    /\ queue' = Append(queue, QueryJob(Home))
    /\ sessions' = [sessions EXCEPT ![Home].pc = "waiting"]
    /\ UNCHANGED <<call, workers>>

\* run_query returns in its worker thread, which becomes free
FinishQuery(i) ==
    /\ i \in 1..Len(workers)
    /\ workers[i].work = "run_query"
    /\ workers' = RemoveAt(workers, i)
    /\ sessions' = IF workers[i].owner = Home
                   THEN [sessions EXCEPT ![Home].future = Some(fetch_active_templates(templates))]
                   ELSE sessions
    /\ UNCHANGED <<call, queue, submitted>>

\* future.result(timeout=timeout_seconds) returned the rows
QueryReturn ==
    /\ sessions[Home].pc = "waiting"
    /\ ~IsNone(sessions[Home].future)
    /\ sessions' = [sessions EXCEPT ![Home].pc = "returned",
                                    ![Home].templates = Value(sessions[Home].future)]
    /\ UNCHANGED poolVars

\* half a second passed (less than one tick of the clock): except
\* FutureTimeoutError returns [], and nothing cancels the job
QueryTimeout ==
    /\ sessions[Home].pc = "waiting"
    /\ IsNone(sessions[Home].future)
    /\ sessions' = [sessions EXCEPT ![Home].pc = "returned"]
    /\ queue' = Abandon(queue, Home)
    /\ workers' = Abandon(workers, Home)
    /\ UNCHANGED <<call, submitted>>

restOfPool ==
    <<pc, excel_delimiter, csvVars, headerVars, llmVars, payload, trace, templates,
      template_text, template_record, tables_html, tables_meta, sent, render_data,
      output_html, reports>>

\* one call of each request thread
PoolCalls == Cardinality(Callers) + 1

\* the pool as earlier requests left it, full or with one free worker, with
\* one more call of each thread to come
InitPool ==
    /\ pc = "serving"
    /\ excel_delimiter = ","
    /\ call = [c \in Callers |-> NoCall]
    /\ queue = <<>>
    /\ \E k \in (max_workers - 1)..max_workers : workers = SlowJobs(k)
    /\ submitted = MaxJobs - PoolCalls
    /\ IdleCsv /\ IdleHeaders /\ IdleLlm
    /\ payload = <<>> /\ trace = <<>> /\ templates = StoredTemplates
    /\ template_text = <<>> /\ template_record = <<>>
    /\ tables_html = <<>> /\ tables_meta = <<>> /\ sent = <<>>
    /\ render_data = <<>> /\ output_html = <<>> /\ reports = <<>>
    /\ sessions = [th \in {Home} |-> NoHomeCall]

NextPool ==
    \/ \E c \in Callers, req \in TerminatingRequests :
          Submit(c, req) /\ UNCHANGED <<restOfPool, sessions>>
    \/ Start /\ UNCHANGED <<restOfPool, sessions>>
    \/ \E i \in 1..max_workers : Finish(i) /\ UNCHANGED <<restOfPool, sessions>>
    \/ Tick /\ UNCHANGED <<restOfPool, sessions>>
    \/ \E c \in Callers : Return(c) /\ UNCHANGED <<restOfPool, sessions>>
    \/ \E c \in Callers : Timeout(c) /\ UNCHANGED <<restOfPool, sessions>>
    \/ SubmitQuery /\ UNCHANGED restOfPool
    \/ \E i \in 1..max_workers : FinishQuery(i) /\ UNCHANGED restOfPool
    \/ QueryReturn /\ UNCHANGED restOfPool
    \/ QueryTimeout /\ UNCHANGED restOfPool

\* threads are scheduled, the clock advances and every job ends
FairPool ==
    /\ WF_vars(Start /\ UNCHANGED <<restOfPool, sessions>>)
    /\ WF_vars(Tick /\ UNCHANGED <<restOfPool, sessions>>)
    /\ \A i \in 1..max_workers : WF_vars(Finish(i) /\ UNCHANGED <<restOfPool, sessions>>)
    /\ \A i \in 1..max_workers : WF_vars(FinishQuery(i) /\ UNCHANGED restOfPool)
    /\ \A c \in Callers : WF_vars(Return(c) /\ UNCHANGED <<restOfPool, sessions>>)
    /\ \A c \in Callers : WF_vars(Timeout(c) /\ UNCHANGED <<restOfPool, sessions>>)
    /\ WF_vars(QueryReturn /\ UNCHANGED restOfPool)
    /\ WF_vars(QueryTimeout /\ UNCHANGED restOfPool)

SpecPool == InitPool /\ [][NextPool]_vars /\ FairPool


-----------------------------------------------------------------------------
(* Properties of render_executor.                                           *)

FullPool == Len(workers) = max_workers

HoldsAbandoned == \E i \in 1..Len(workers) : workers[i].owner = "abandoned"

\* C26: every job that is queued on or running in render_executor is a
\* template evaluation.
C26_OnlyEvaluations ==
    /\ \A i \in 1..Len(queue) : queue[i].work = "render_html"
    /\ \A i \in 1..Len(workers) : workers[i].work = "render_html"


\* C25: render_executor never runs more than max_workers jobs at once; when
\* every job ends and threads are scheduled fairly, a queue of any length
\* gets shorter, so the oldest job, and in turn every job, is started; a full
\* pool gets a free slot again; and the jobs whose callers timed out end and
\* give their slots back.
C25_SlotsReclaimed ==
    /\ [](Len(workers) <= max_workers)
    /\ \A k \in 1..PoolCalls : (Len(queue) = k) ~> (Len(queue) < k)
    /\ FullPool ~> ~FullPool
    /\ HoldsAbandoned ~> ~HoldsAbandoned

\* the pool was full of abandoned evaluations, so that an evaluation that
\* takes no time timed out in the queue; now every job has run, every call
\* has returned and every slot is free
C25_Witness ==
    /\ workers = <<>> /\ queue = <<>>
    /\ submitted = MaxJobs
    /\ \A c \in Callers : HasReturned(c)
    /\ sessions[Home].pc = "returned"
    /\ \E c \in Callers : call[c].result = TimedOut /\ Speed(call[c].req) = "fast"


-----------------------------------------------------------------------------
(* The two parsers compared.                                                *)

\* the text is within every limit: rows that are not blank, fields of a
\* record, characters of a cell
WithinAllLimits(t, dia) ==
    LET records == ReadCsv(t, dia)
    IN  /\ Cardinality({i \in DOMAIN records : ~BlankStrict(records[i])}) <= MAX_CSV_ROWS
        /\ \A i \in DOMAIN records :
              /\ Len(records[i]) <= MAX_CSV_COLUMNS
              /\ \A c \in DOMAIN records[i] : Len(records[i][c]) <= MAX_CELL_CHARS

\* C29: for every CSV text within all the limits, every delimiter and every
\* has_header, parse_csv_text and parse_csv_text_strict return the same
\* headers and the same rows, or fail alike.
C29_SameTable ==
    ( pc = "parsed" /\ result.error # "delimiter" /\ WithinAllLimits(text, dialect) ) =>
        LET preview == parse_csv_text(text, dialect, has_header)
            strict == parse_csv_text_strict(text, dialect, has_header)
        IN  /\ preview.ok = strict.ok
            /\ preview.headers = strict.headers
            /\ preview.rows = strict.rows


-----------------------------------------------------------------------------
(* find_forbidden_terms on enumerated documents: up to MaxWords words,      *)
(* each followed by a separator.                                            *)

MaxWords == 3

TermWords ==
    { <<"i", "d">>, <<"I", "D">>, <<"s", "q", "l">>, <<"a", "p", "i">>,
      <<"f", "a", "s", "t", "a", "p", "i">> }

\* a space ends a word, an underscore is part of it
TermSeparators == {" ", "_"}

TermTexts ==
    { Concat([i \in 1..Len(ws) |-> ws[i].word \o <<ws[i].sep>>]) :
        ws \in SeqsUpTo([word : TermWords, sep : TermSeparators], MaxWords) }

\* the document is searched; found is kept as the verdict
FindForbiddenTerms ==
    /\ pc = "start"
    /\ pc' = "checked"
    /\ verdict' = [kind |-> "forbidden_terms", found |-> find_forbidden_terms(output_html)]
    /\ UNCHANGED <<excel_delimiter, csvVars, headerVars, spec, edits, changed, response,
                   poolVars, flowVars>>

InitTerms ==
    /\ pc = "start"
    /\ excel_delimiter = ","
    /\ IdleCsv /\ IdleHeaders /\ IdleLlm /\ IdlePool
    /\ payload = <<>> /\ trace = <<>> /\ templates = {}
    /\ template_text = <<>> /\ template_record = <<>>
    /\ tables_html = <<>> /\ tables_meta = <<>> /\ sent = <<>>
    /\ render_data = <<>> /\ reports = <<>> /\ sessions = <<>>
    /\ output_html \in TermTexts

NextTerms == FindForbiddenTerms

SpecTerms == InitTerms /\ [][NextTerms]_vars

\* position a of the text starts a word: a letter, digit or underscore with
\* none before it
WordStart(s, a) == IsWordChar(s[a]) /\ (a = 1 \/ ~IsWordChar(s[a - 1]))

\* position b of the text ends a word
WordEnd(s, b) == IsWordChar(s[b]) /\ (b = Len(s) \/ ~IsWordChar(s[b + 1]))

\* one of the words of the text (its longest runs of letters, digits and
\* underscores) is the term in some letter case
IsWordOf(s, term) ==
    \E a \in 1..Len(s) :
        LET b == a + Len(term) - 1
        IN  /\ b <= Len(s)
            /\ WordStart(s, a) /\ WordEnd(s, b)
            /\ \A i \in a..b : IsWordChar(s[i])
            /\ \A i \in 1..Len(term) : LowerChar(s[a + i - 1]) = LowerChar(term[i])

\* the configured terms that are words of the text, in the configured order
TermsAsWords(s) == SelectSeq(HOFTALON_FORBIDDEN_TERMS, LAMBDA term : IsWordOf(s, term))

\* C30: find_forbidden_terms returns exactly the configured terms that occur
\* in the text as whole words in any letter case, all of them and not only
\* the first, never a term that is only part of a longer word, and it leaves
\* the text as it was.
C30_WholeWordTerms ==
    [][pc' = "checked" =>
          /\ verdict'.found = TermsAsWords(output_html)
          /\ output_html' = output_html]_vars

\* a document with ID in capitals, fastapi and sql: the three terms are
\* found, in the configured order, and api, which is only part of fastapi,
\* is not
C30_Witness ==
    /\ pc = "checked"
    /\ verdict.kind = "forbidden_terms"
    /\ Contains(output_html, <<"I", "D">>)
    /\ verdict.found = << <<"s", "q", "l">>, <<"i", "d">>, <<"f", "a", "s", "t", "a", "p", "i">> >>

=============================================================================
